---------------------------- MODULE Spec2Model ----------------------------
(***************************************************************************)
(* Model of the sequential global-dedup pass of src/claude_usage.py        *)
(* (ClaudeUsageAnalyzer.process_files_with_global_dedup) together with the *)
(* cost calculator (calculate_entry_cost, calculate_cost_from_tokens) and  *)
(* the price-table loader (get_pricing_data).                              *)
(*                                                                         *)
(* Units: time is counted in hours (a parsed timestamp is its naive        *)
(* wall-clock hour), money in micro-dollars (3e-06 USD per token = 3).     *)
(* None is the empty tuple <<>>, a present value v is <<v>> where a field  *)
(* may be None.                                                            *)
(***************************************************************************)
EXTENDS Integers, Sequences, FiniteSets, TLC

VARIABLES
    options,                 \* <<options['command'], options.get('last')>>
    cost_mode,               \* self.cost_mode
    pricing_cache,           \* self.pricing_cache: <<>> or <<table>>
    global_processed_hashes, \* set of fingerprints
    hash_timestamps,         \* fingerprint -> firstSeen (hours)
    sessions_by_dir,         \* session_dir -> aggregate (defaultdict)
    session_keys,            \* insertion order of sessions_by_dir
    total_entries_processed,
    total_entries_skipped,
    session_count,
    should_stop_early,
    pc,                      \* "between" | "in_file" | "done"
    session_dir,             \* directory of the file being read
    has_session_data,
    result,                  \* the returned list (set at the end of the run)
    files_opened,            \* number of files opened so far
    lines_read,              \* number of lines read so far
    fetch_attempts,          \* history: calls of requests.get so far
    tables_used,             \* history: price tables cost computations used
    admitted_sum,            \* history: per directory, totals of admitted events
    last,                    \* history: the line read last and its outcome
    readmitted,              \* history: fingerprint -> time of its aged-out admission
    cost_probe,              \* input and output of a calculate_entry_cost call
    corpus,                  \* the .jsonl files on disk
    all_jsonl_files,         \* aggregate_data_parallel: files as enumerated
    sorted_files,            \* aggregate_data_parallel: files as sorted
    runs,                    \* history: runs of aggregate_data_parallel so far
    run_result,              \* what the last run returned
    prev_result,             \* history: what the run before it returned
    view_data,               \* the session list handed to a display function
    daily_data,              \* display_monthly: process_daily_with_projects(data)
    monthly_data,            \* display_monthly: process_monthly_data(daily_data, limit)
    view_shown,              \* whether display_monthly has run
    live_files,              \* live monitor: the log files on disk
    blocks_on_disk,          \* what load_session_blocks returns for the disk
    clock,                   \* wall clock, in seconds
    cached_blocks,           \* run_live_monitor: cached_blocks (<<>> is None)
    cache_time,              \* run_live_monitor: cache_time (<<>> is None)
    active_block,            \* what the last tick reported (<<>> is None)
    fresh_block,             \* history: what a detection without cache returns
    current_sessions,        \* what get_current_session_data returned last
    mpc,                     \* run_live_monitor: position of the process
    cursor_hidden,           \* terminal state
    handlers,                \* signals whose handler is signal_handler
    ticks,                   \* number of ticks so far
    date_filter,             \* <<options.get('since'), options.get('until')>>
    paths,                   \* history: what discover_claude_paths returned
    opened,                  \* history: the files the last run opened
    pass_state,              \* history: the locals the last pass ended with
    path_results,            \* parallel variant: result['data'] of each worker
    ev_threshold,            \* the value of dedup_cleanup_threshold in force
    with_eviction,           \* dedup store of a pass with the cleanup
    without_eviction,        \* dedup store of the same pass without it
    ev_last,                 \* history: the event read last, both decisions
    last_load,               \* history: when load_session_blocks last ran
    cache_hit                \* history: whether the last tick used the cache

vars == <<options, cost_mode, pricing_cache, global_processed_hashes,
          hash_timestamps, sessions_by_dir, session_keys, total_entries_processed,
          total_entries_skipped, session_count, should_stop_early, pc, session_dir,
          has_session_data, result, files_opened, lines_read,
          fetch_attempts, tables_used, admitted_sum, last, readmitted, cost_probe,
          corpus, all_jsonl_files, sorted_files, runs, run_result, prev_result,
          view_data, daily_data, monthly_data, view_shown,
          live_files, blocks_on_disk, clock, cached_blocks, cache_time,
          active_block, fresh_block, current_sessions, mpc, cursor_hidden,
          handlers, ticks, date_filter, paths, opened, pass_state, path_results,
          ev_threshold, with_eviction, without_eviction, ev_last, last_load,
          cache_hit>>
corpus_vars == <<corpus, all_jsonl_files, sorted_files, runs, run_result, prev_result>>
view_vars == <<view_data, daily_data, monthly_data, view_shown>>
live_vars == <<live_files, blocks_on_disk, clock, cached_blocks, cache_time,
               active_block, fresh_block, current_sessions, mpc, cursor_hidden,
               handlers, ticks>>

None == <<>>
Some(v) == <<v>>

\* ------------------------------------------------------------------ bounds
MaxFiles == 2
MaxLines == 3
MaxReplayLines == 4
MaxFetches == 2
MaxCorpus == 3
MaxRuns == 2
MaxSessions == 3
MaxLiveFiles == 2
MaxTicks == 2
MaxFilterCorpus == 2
MaxEvictionLines == 5
MaxCacheTicks == 12
\* The wall clock when the monitor starts, in seconds.
StartClock == 600

\* --------------------------------------------------------- program constants
dedup_window_hours == 24
\* 10000 in the source; scaled down so that the store can exceed it within
\* MaxLines events (the comparison and the cleanup are the source's).
dedup_cleanup_threshold == 1

\* ------------------------------------------------------------------ inputs
\* <<command, --last>> pairs a run is started with ("blocks" is read by
\* this pass exactly as "monthly" is, "session" without --last as "daily").
Options == {<<"daily", None>>, <<"session", Some(1)>>, <<"monthly", None>>}
CostModes == {"auto", "calculate", "display"}

\* Session directories: <<replica root, directory name>>.
SessionDirs == {<<"main", "-home-a">>, <<"vm1", "-home-a">>}

\* The timestamp field: absent; unparsable (a string fromisoformat rejects,
\* or null or another non-string, on which endswith raises); or an ISO-8601
\* string ending in "Z", as the log writers produce it, given by its hour.
Hours == {0, 1, 25, 49}
NoTimestamp == [kind |-> "absent", wall |-> 0]
Timestamps ==
    {NoTimestamp, [kind |-> "unparsable", wall |-> 0]}
    \cup {[kind |-> "iso", wall |-> h] : h \in Hours}

\* message.usage: the four token counts (a missing key reads as 0).
Tok(i, o, cc, cr) ==
    [input_tokens |-> i, output_tokens |-> o,
     cache_creation_input_tokens |-> cc, cache_read_input_tokens |-> cr]
ZeroUsage == Tok(0, 0, 0, 0)
CostUsages == {ZeroUsage, Tok(1, 0, 1, 0), Tok(0, 0, 3, 4), Tok(1, 2, 3, 4),
               Tok(0, 2, 0, 0)}

\* message.model
CostModels == {"absent", "null", "", "claude-sonnet-4-20250514",
               "claude-opus-4-20250514", "claude-3-haiku", "gpt-4"}

\* costUSD: absent, null or a number (micro-dollars).
NoCost == [kind |-> "absent", val |-> 0]
CostCosts == {NoCost, [kind |-> "null", val |-> 0], [kind |-> "num", val |-> 0],
              [kind |-> "num", val |-> 5]}

\* One line of a log file.  kind:
\*   blank          empty after strip()
\*   invalid_json   json.loads raises JSONDecodeError
\*   scalar         a JSON number, true or null
\*   no_message     an object without the key "message"
\*   message_null   an object whose "message" is null
\*   message_text   an object whose "message" is a string not holding "usage"
\*   message_usage_text  an object whose "message" is a string holding "usage"
\*   usage          an object whose "message" is an object with a usage object
\* message_id and requestId are a string, or "none" for a missing key or the
\* JSON null (dict.get returns None for both).
PlainKinds == {"blank", "invalid_json", "scalar", "no_message", "message_null",
               "message_text", "message_usage_text"}
Line(k, mid, rid, ts, u, m, c) ==
    [kind |-> k, message_id |-> mid, requestId |-> rid, timestamp |-> ts,
     usage |-> u, model |-> m, costUSD |-> c]
PlainLines == {Line(k, "none", "none", NoTimestamp, ZeroUsage, "absent", NoCost) :
                 k \in PlainKinds}

\* The assistant responses the logs record.  A response is written with one
\* message id, request id, usage, model and cost wherever and whenever it is
\* logged, so the lines of one response differ in their timestamp only:
\* a priced response with a declared cost and a response of an unpriced model
\* with cache tokens only, both with a fingerprint; an empty response without
\* message id and a priced one without request id.
Declared5 == [kind |-> "num", val |-> 5]
Fingerprinted ==
    {Line("usage", "m1", "r1", NoTimestamp, Tok(1, 0, 1, 0),
          "claude-sonnet-4-20250514", Declared5),
     Line("usage", "m2", "r1", NoTimestamp, Tok(0, 0, 3, 4), "gpt-4", NoCost)}
Unfingerprinted ==
    {Line("usage", "none", "r1", NoTimestamp, ZeroUsage, "absent", NoCost),
     Line("usage", "m1", "none", NoTimestamp, Tok(1, 0, 1, 0),
          "claude-sonnet-4-20250514", Declared5)}
UsageLines ==
    {[e EXCEPT !.timestamp = ts] : e \in Fingerprinted, ts \in Timestamps}
    \cup {[e EXCEPT !.timestamp = ts] :
            e \in Unfingerprinted,
            ts \in {t \in Timestamps : t.kind # "iso" \/ t.wall = 49}}
Lines == PlainLines \cup UsageLines

\* The entries calculate_entry_cost is probed with.
CostEntries ==
    {Line("usage", "none", "none", NoTimestamp, u, m, c) :
       u \in CostUsages, m \in CostModels, c \in CostCosts}

\* The lines of a corpus of replicated conversation logs: only lines of
\* responses with a fingerprint.
ReplayLines ==
    {[e EXCEPT !.timestamp = ts] : e \in Fingerprinted, ts \in Timestamps}
Fingerprints == {<<e.message_id, e.requestId>> : e \in Fingerprinted}

\* -------------------------------------------------------------- price table
Rates(i, o, cc, cr) ==
    [input_cost_per_token |-> i, output_cost_per_token |-> o,
     cache_creation_input_token_cost |-> cc, cache_read_input_token_cost |-> cr]

\* The built-in table get_pricing_data returns when the fetch fails.
FallbackPricing ==
    [m \in {"claude-sonnet-4-20250514", "claude-opus-4-20250514"} |->
       IF m = "claude-sonnet-4-20250514"
         THEN Rates(Some(3), Some(15), None, None)
         ELSE Rates(Some(15), Some(75), None, None)]

\* A response of the price-table collaborator (response.json()): one model
\* with all four rates, one with a missing rate and a rate of 0, and one
\* whose name does not start with "claude-".
all_pricing ==
    [m \in {"claude-sonnet-4-20250514", "claude-3-haiku", "gpt-4"} |->
       CASE m = "claude-sonnet-4-20250514" -> Rates(Some(3), Some(15), Some(4), Some(1))
         [] m = "claude-3-haiku" -> Rates(None, Some(2), Some(0), Some(1))
         [] OTHER -> Rates(Some(30), Some(60), None, None)]

StartsWithClaude(model_name) ==
    model_name \in {"claude-sonnet-4-20250514", "claude-opus-4-20250514",
                    "claude-3-haiku"}

\* The filtered table the fetch caches.
claude_pricing ==
    [m \in {n \in DOMAIN all_pricing : StartsWithClaude(n)} |-> all_pricing[m]]

\* get_pricing_data with the cache `cache` when the fetch, if one is made,
\* succeeds (fetch_ok) or raises: the table returned, the cache afterwards
\* and the number of requests.get calls made.
get_pricing_data(cache, fetch_ok) ==
    IF cache # None
      THEN [table |-> cache[1], cache |-> cache, fetches |-> 0]
      ELSE IF fetch_ok
        THEN [table |-> claude_pricing, cache |-> Some(claude_pricing), fetches |-> 1]
        ELSE [table |-> FallbackPricing, cache |-> cache, fetches |-> 1]

\* ----------------------------------------------------------- cost calculator
\* Python truthiness of a rate (None and 0 are false) and of message.model.
RateOf(rate) == IF rate = None THEN 0 ELSE rate[1]
ModelTruthy(model) == model \notin {"absent", "null", ""}

calculate_cost_from_tokens(tokens, model_name, pricing_data) ==
    IF model_name \notin DOMAIN pricing_data
      THEN 0
      ELSE LET pricing == pricing_data[model_name] IN
           (IF RateOf(pricing.input_cost_per_token) # 0 /\ tokens.input_tokens # 0
              THEN tokens.input_tokens * RateOf(pricing.input_cost_per_token) ELSE 0)
         + (IF RateOf(pricing.output_cost_per_token) # 0 /\ tokens.output_tokens # 0
              THEN tokens.output_tokens * RateOf(pricing.output_cost_per_token) ELSE 0)
         + (IF RateOf(pricing.cache_creation_input_token_cost) # 0
               /\ tokens.cache_creation_input_tokens # 0
              THEN tokens.cache_creation_input_tokens
                     * RateOf(pricing.cache_creation_input_token_cost) ELSE 0)
         + (IF RateOf(pricing.cache_read_input_token_cost) # 0
               /\ tokens.cache_read_input_tokens # 0
              THEN tokens.cache_read_input_tokens
                     * RateOf(pricing.cache_read_input_token_cost) ELSE 0)

\* Whether calculate_entry_cost reaches calculate_cost_from_tokens (and so
\* get_pricing_data) for this line under this mode.
CallsCostFromTokens(mode, data) ==
    CASE mode = "display" -> FALSE
      [] mode = "calculate" -> ModelTruthy(data.model)
      [] OTHER -> data.costUSD.kind # "num" /\ ModelTruthy(data.model)

\* calculate_entry_cost whose auto mode tests the declared cost for truth
\* (so that a declared 0 counts as absent).
calculate_entry_cost_truthy(mode, data, pricing_data) ==
    CASE mode = "display" ->
           IF data.costUSD.kind = "num" THEN data.costUSD.val ELSE 0
      [] mode = "calculate" ->
           IF ModelTruthy(data.model)
             THEN calculate_cost_from_tokens(data.usage, data.model, pricing_data)
             ELSE 0
      [] OTHER ->
           IF data.costUSD.kind = "num" /\ data.costUSD.val # 0
             THEN data.costUSD.val
             ELSE IF ModelTruthy(data.model)
               THEN calculate_cost_from_tokens(data.usage, data.model, pricing_data)
               ELSE 0

\* calculate_entry_cost; pricing_data is what get_pricing_data returns when
\* the call reaches it.
calculate_entry_cost(mode, data, pricing_data) ==
    CASE mode = "display" ->
           IF data.costUSD.kind = "num" THEN data.costUSD.val ELSE 0
      [] mode = "calculate" ->
           IF ModelTruthy(data.model)
             THEN calculate_cost_from_tokens(data.usage, data.model, pricing_data)
             ELSE 0
      [] OTHER ->
           IF data.costUSD.kind = "num"
             THEN data.costUSD.val
             ELSE IF ModelTruthy(data.model)
               THEN calculate_cost_from_tokens(data.usage, data.model, pricing_data)
               ELSE 0

\* ------------------------------------------------------------------ decoder
\* What the body of the line loop does with a line before any usage field is
\* read: "continue" (blank, or JSONDecodeError caught at the line), "raise"
\* (an exception the line's handler does not catch: the file is abandoned),
\* "count_raise" (the entry is counted, then create_unique_hash raises),
\* "non_usage" (the test for message.usage is false), "usage".
\* Decode without the handler of JSONDecodeError at the line.
Decode_uncaught(line) ==
    CASE line.kind = "blank" -> "continue"
      [] line.kind \in {"invalid_json", "scalar", "message_null"} -> "raise"
      [] line.kind = "message_usage_text" -> "count_raise"
      [] line.kind \in {"no_message", "message_text"} -> "non_usage"
      [] OTHER -> "usage"

Decode(line) ==
    CASE line.kind \in {"blank", "invalid_json"} -> "continue"
      [] line.kind \in {"scalar", "message_null"} -> "raise"
      [] line.kind = "message_usage_text" -> "count_raise"
      [] line.kind \in {"no_message", "message_text"} -> "non_usage"
      [] OTHER -> "usage"

create_unique_hash(data) ==
    IF data.message_id = "none" \/ data.requestId = "none"
      THEN None
      ELSE Some(<<data.message_id, data.requestId>>)

\* Lines 368-379: the timestamp the dedup check uses: None when the key is
\* absent or parsing raises, else the parsed value made naive.
ParseTimestamp(ts) == IF ts.kind = "iso" THEN Some(ts.wall) ELSE None

\* The local-date step (lines 432-445) raises on what fromisoformat or
\* endswith rejects; nothing around it catches that.
ActivityDateRaises(need_timestamps, ts) ==
    need_timestamps /\ ts.kind = "unparsable"

\* Lines 432-445: the local day (YYYY-MM-DD, as a day number) of the
\* timestamp, the local zone being UTC.
activity_date(need_timestamps, ts) ==
    IF need_timestamps /\ ts.kind = "iso" THEN Some(ts.wall \div 24) ELSE None

\* ------------------------------------------------------- deduplication window
Abs(x) == IF x < 0 THEN -x ELSE x

\* skip_duplicate with the difference taken without abs().
skip_duplicate_signed(unique_hash, current_timestamp, hashes, timestamps) ==
    IF unique_hash # None /\ unique_hash[1] \in hashes
      THEN IF unique_hash[1] \in DOMAIN timestamps /\ current_timestamp # None
             THEN current_timestamp[1] - timestamps[unique_hash[1]]
                    <= dedup_window_hours
             ELSE TRUE
      ELSE FALSE

\* skip_duplicate that admits a tracked hash when a timestamp is missing.
skip_duplicate_lenient(unique_hash, current_timestamp, hashes, timestamps) ==
    IF unique_hash # None /\ unique_hash[1] \in hashes
      THEN IF unique_hash[1] \in DOMAIN timestamps /\ current_timestamp # None
             THEN Abs(current_timestamp[1] - timestamps[unique_hash[1]])
                    <= dedup_window_hours
             ELSE FALSE
      ELSE FALSE

skip_duplicate(unique_hash, current_timestamp, hashes, timestamps) ==
    IF unique_hash # None /\ unique_hash[1] \in hashes
      THEN IF unique_hash[1] \in DOMAIN timestamps /\ current_timestamp # None
             THEN Abs(current_timestamp[1] - timestamps[unique_hash[1]])
                    <= dedup_window_hours
             ELSE TRUE
      ELSE FALSE

\* Lines 396-400: the store after the event is marked as processed.
MarkHashes(unique_hash, hashes) ==
    IF unique_hash # None THEN hashes \cup {unique_hash[1]} ELSE hashes
\* MarkTimestamps that records a timestamp for a new hash only.
MarkTimestamps_keep_first(unique_hash, current_timestamp, timestamps) ==
    IF unique_hash # None /\ current_timestamp # None
       /\ unique_hash[1] \notin DOMAIN timestamps
      THEN [h \in DOMAIN timestamps \cup {unique_hash[1]} |->
              IF h = unique_hash[1] THEN current_timestamp[1] ELSE timestamps[h]]
      ELSE timestamps

MarkTimestamps(unique_hash, current_timestamp, timestamps) ==
    IF unique_hash # None /\ current_timestamp # None
      THEN [h \in DOMAIN timestamps \cup {unique_hash[1]} |->
              IF h = unique_hash[1] THEN current_timestamp[1] ELSE timestamps[h]]
      ELSE timestamps

\* old_hashes with a cutoff of one window instead of two.
old_hashes_one_window(current_timestamp, timestamps) ==
    IF Cardinality(DOMAIN timestamps) > dedup_cleanup_threshold
       /\ current_timestamp # None
      THEN {h \in DOMAIN timestamps :
              timestamps[h] < current_timestamp[1] - dedup_window_hours}
      ELSE {}

\* Lines 402-408: the hashes the periodic cleanup removes.
old_hashes(current_timestamp, timestamps) ==
    IF Cardinality(DOMAIN timestamps) > dedup_cleanup_threshold
       /\ current_timestamp # None
      THEN {h \in DOMAIN timestamps :
              timestamps[h] < current_timestamp[1] - dedup_window_hours * 2}
      ELSE {}

\* ---------------------------------------------------------- aggregation store
\* The defaultdict's factory (lines 312-321).
EmptySession ==
    [total_cost |-> 0, input_tokens |-> 0, output_tokens |-> 0,
     cache_creation_tokens |-> 0, cache_read_tokens |-> 0,
     last_activity |-> None, models_used |-> {}, session_dir |-> None]

\* sessions_by_dir[dir], without creating the entry.
SessionOf(sessions, dir) ==
    IF dir \in DOMAIN sessions THEN sessions[dir] ELSE EmptySession

\* Lines 447-461: the aggregate of dir after one admitted event.
Aggregate(session_data, dir, data, entry_cost, need_timestamps, date) ==
    [total_cost |-> session_data.total_cost + entry_cost,
     input_tokens |-> session_data.input_tokens + data.usage.input_tokens,
     output_tokens |-> session_data.output_tokens + data.usage.output_tokens,
     cache_creation_tokens |->
         session_data.cache_creation_tokens + data.usage.cache_creation_input_tokens,
     cache_read_tokens |->
         session_data.cache_read_tokens + data.usage.cache_read_input_tokens,
     last_activity |->
         IF need_timestamps /\ date # None
            /\ (session_data.last_activity = None
                \/ date[1] > session_data.last_activity[1])
           THEN date ELSE session_data.last_activity,
     models_used |->
         IF ModelTruthy(data.model)
           THEN session_data.models_used \cup {data.model}
           ELSE session_data.models_used,
     session_dir |-> Some(dir)]

\* '1970-01-01' as a day number, day 0 being the day of hour 0 (2024-01-01).
EpochDay == -19723

\* extract_session_info (lines 120-130): the project name of a directory
\* name.  A name that starts with '-' loses it and is split at '-', the last
\* part being the project; any other name is split at '/'.  Given as a table
\* over the directory names in use (none of the others holds a '/').
project_name(session_dir_name) ==
    CASE session_dir_name = "-home-a" -> "a"
      [] session_dir_name = "-home-b" -> "b"
      [] session_dir_name = "-a" -> "a"
      [] session_dir_name = "-b" -> "b"
      [] session_dir_name = "-" -> ""
      [] OTHER -> session_dir_name

\* Lines 483-505: the returned list, in the dict's insertion order.
RECURSIVE ConvertSessions(_, _)
ConvertSessions(keys, sessions) ==
    IF keys = <<>> THEN <<>>
    ELSE LET dir == Head(keys)
             session_data == sessions[dir]
             rest == ConvertSessions(Tail(keys), sessions)
         IN IF session_data.total_cost = 0 /\ session_data.input_tokens = 0
               /\ session_data.output_tokens = 0
              THEN rest
              ELSE <<[sessionId |-> dir[2],
                      projectPath |-> project_name(dir[2]),
                      inputTokens |-> session_data.input_tokens,
                      outputTokens |-> session_data.output_tokens,
                      cacheCreationTokens |-> session_data.cache_creation_tokens,
                      cacheReadTokens |-> session_data.cache_read_tokens,
                      totalCost |-> session_data.total_cost,
                      lastActivity |->
                          IF session_data.last_activity = None
                            THEN EpochDay ELSE session_data.last_activity[1],
                      modelsUsed |-> session_data.models_used]>> \o rest

\* ------------------------------------------------------------ history values
ZeroTotals ==
    [total_cost |-> 0, input_tokens |-> 0, output_tokens |-> 0,
     cache_creation_tokens |-> 0, cache_read_tokens |-> 0]
AddTotals(t, data, entry_cost) ==
    [total_cost |-> t.total_cost + entry_cost,
     input_tokens |-> t.input_tokens + data.usage.input_tokens,
     output_tokens |-> t.output_tokens + data.usage.output_tokens,
     cache_creation_tokens |->
         t.cache_creation_tokens + data.usage.cache_creation_input_tokens,
     cache_read_tokens |-> t.cache_read_tokens + data.usage.cache_read_input_tokens]
NoLine == Line("blank", "none", "none", NoTimestamp, ZeroUsage, "absent", NoCost)
NoProbe == [data |-> NoLine, cost |-> 0, table |-> None, called |-> FALSE]

\* ------------------------------------------------------------- state machine
need_timestamps == options[1] \in {"daily", "session"}

\* Line 344: the --last early exit.
EarlyExit ==
    /\ options[2] # None
    /\ options[2][1] # 0
    /\ options[1] = "session"
    /\ session_count >= options[2][1]

Init ==
    /\ options \in Options
    /\ cost_mode \in CostModes
    /\ pricing_cache = None
    /\ global_processed_hashes = {}
    /\ hash_timestamps = <<>>
    /\ sessions_by_dir = <<>>
    /\ session_keys = <<>>
    /\ total_entries_processed = 0
    /\ total_entries_skipped = 0
    /\ session_count = 0
    /\ should_stop_early = FALSE
    /\ pc = "between"
    /\ session_dir = None
    /\ has_session_data = FALSE
    /\ result = <<>>
    /\ files_opened = 0
    /\ lines_read = 0
    /\ fetch_attempts = 0
    /\ tables_used = {}
    /\ admitted_sum = [d \in SessionDirs |-> ZeroTotals]
    /\ last = [line |-> NoLine, outcome |-> "none", tracked |-> FALSE,
               first_seen |-> None]
    /\ readmitted = [f \in Fingerprints |-> None]
    /\ cost_probe = NoProbe
    /\ corpus = {}
    /\ all_jsonl_files = <<>>
    /\ sorted_files = <<>>
    /\ runs = 0
    /\ run_result = <<>>
    /\ prev_result = <<>>
    /\ view_data = <<>>
    /\ daily_data = <<>>
    /\ monthly_data = <<>>
    /\ view_shown = FALSE
    /\ live_files = {}
    /\ blocks_on_disk = <<>>
    /\ clock = StartClock
    /\ cached_blocks = None
    /\ cache_time = None
    /\ active_block = None
    /\ fresh_block = None
    /\ current_sessions = <<>>
    /\ mpc = "start"
    /\ cursor_hidden = FALSE
    /\ handlers = {}
    /\ ticks = 0
    /\ date_filter = <<[kind |-> "absent", day |-> 0], [kind |-> "absent", day |-> 0]>>
    /\ paths = None
    /\ opened = {}
    /\ pass_state = None
    /\ path_results = <<>>
    /\ ev_threshold = dedup_cleanup_threshold
    /\ with_eviction = [hashes |-> {}, timestamps |-> <<>>]
    /\ without_eviction = [hashes |-> {}, timestamps |-> <<>>]
    /\ ev_last = [line |-> NoLine, skipped |-> FALSE, skipped_without |-> FALSE,
                  in_order |-> TRUE, evicted |-> FALSE, forgotten |-> FALSE,
                  read |-> 0]
    /\ last_load = None
    /\ cache_hit = FALSE

\* Lines 342-351: the loop takes the next file of the sorted list and opens
\* it.
OpenFile ==
    /\ pc = "between"
    /\ files_opened < MaxFiles
    /\ ~EarlyExit
    /\ \E dir \in SessionDirs : session_dir' = Some(dir)
    /\ has_session_data' = FALSE
    /\ files_opened' = files_opened + 1
    /\ pc' = "in_file"
    /\ UNCHANGED <<options, cost_mode, pricing_cache, global_processed_hashes,
                   hash_timestamps, sessions_by_dir, session_keys,
                   total_entries_processed, total_entries_skipped, session_count,
                   should_stop_early, result, lines_read, fetch_attempts,
                   tables_used, admitted_sum, last, readmitted, cost_probe,
                   corpus_vars, view_vars, live_vars, date_filter, paths, opened, pass_state, path_results, ev_threshold, with_eviction, without_eviction, ev_last, last_load, cache_hit>>

\* Lines 353-466 (and 472-475 when an exception leaves the file): the loop
\* body for one line of the open file, the line being one of `lines`.
ReadLine(lines, max_lines) ==
    /\ pc = "in_file"
    /\ lines_read < max_lines
    /\ \E line \in lines :
       \E fetch_ok \in IF CallsCostFromTokens(cost_mode, line) /\ pricing_cache = None
                         THEN BOOLEAN ELSE {TRUE} :
         LET dir == session_dir[1]
             decoded == Decode(line)
             unique_hash == create_unique_hash(line)
             current_timestamp == ParseTimestamp(line.timestamp)
             skip == skip_duplicate(unique_hash, current_timestamp,
                                    global_processed_hashes, hash_timestamps)
             marked_hashes == MarkHashes(unique_hash, global_processed_hashes)
             marked_timestamps ==
                 MarkTimestamps(unique_hash, current_timestamp, hash_timestamps)
             old == old_hashes(current_timestamp, marked_timestamps)
             calls == CallsCostFromTokens(cost_mode, line)
             pricing == get_pricing_data(pricing_cache, fetch_ok)
             entry_cost == calculate_entry_cost(cost_mode, line, pricing.table)
             raises == ActivityDateRaises(need_timestamps, line.timestamp)
             date == activity_date(need_timestamps, line.timestamp)
             counted == decoded \in {"count_raise", "usage"}
             admitted == decoded = "usage" /\ ~skip
             applied == admitted /\ ~raises
             leaves_file == decoded \in {"raise", "count_raise"} \/ (admitted /\ raises)
             tracked == unique_hash # None /\ unique_hash[1] \in global_processed_hashes
             first_seen ==
                 IF unique_hash # None /\ unique_hash[1] \in DOMAIN hash_timestamps
                   THEN Some(hash_timestamps[unique_hash[1]]) ELSE None
         IN  /\ total_entries_processed' =
                   total_entries_processed + (IF counted THEN 1 ELSE 0)
             /\ total_entries_skipped' =
                   total_entries_skipped + (IF decoded = "usage" /\ skip THEN 1 ELSE 0)
             /\ global_processed_hashes' =
                   IF admitted THEN marked_hashes \ old ELSE global_processed_hashes
             /\ hash_timestamps' =
                   IF admitted
                     THEN [h \in DOMAIN marked_timestamps \ old |-> marked_timestamps[h]]
                     ELSE hash_timestamps
             /\ pricing_cache' = IF admitted /\ calls THEN pricing.cache ELSE pricing_cache
             /\ fetch_attempts' =
                   fetch_attempts + (IF admitted /\ calls THEN pricing.fetches ELSE 0)
             /\ tables_used' =
                   IF admitted /\ calls THEN tables_used \cup {pricing.table}
                   ELSE tables_used
             /\ sessions_by_dir' =
                   IF applied
                     THEN [d \in DOMAIN sessions_by_dir \cup {dir} |->
                             IF d = dir
                               THEN Aggregate(SessionOf(sessions_by_dir, dir), dir, line,
                                              entry_cost, need_timestamps, date)
                               ELSE sessions_by_dir[d]]
                     ELSE sessions_by_dir
             /\ session_keys' =
                   IF applied /\ dir \notin DOMAIN sessions_by_dir
                     THEN Append(session_keys, dir) ELSE session_keys
             /\ has_session_data' = (has_session_data \/ applied)
             /\ admitted_sum' =
                   IF admitted
                     THEN [admitted_sum EXCEPT ![dir] = AddTotals(@, line, entry_cost)]
                     ELSE admitted_sum
             /\ pc' = IF leaves_file THEN "between" ELSE "in_file"
             /\ last' = [line |-> line,
                         outcome |->
                           CASE decoded # "usage" -> decoded
                             [] skip -> "skipped"
                             [] raises -> "admitted_raise"
                             [] OTHER -> "applied",
                         tracked |-> decoded = "usage" /\ tracked,
                         first_seen |-> IF decoded = "usage" THEN first_seen ELSE None]
             /\ readmitted' =
                   IF admitted /\ unique_hash # None
                     THEN [readmitted EXCEPT ![unique_hash[1]] =
                             IF tracked THEN current_timestamp ELSE None]
                     ELSE readmitted
    /\ lines_read' = lines_read + 1
    /\ UNCHANGED <<options, cost_mode, session_count, should_stop_early,
                   session_dir, result, files_opened, cost_probe, corpus_vars, view_vars, live_vars, date_filter, paths, opened, pass_state, path_results, ev_threshold, with_eviction, without_eviction, ev_last, last_load, cache_hit>>

ProcessLine == ReadLine(Lines, MaxLines)
ProcessReplayLine == ReadLine(ReplayLines, MaxReplayLines)

\* Lines 468-470: the file has no further line.
CloseFile ==
    /\ pc = "in_file"
    /\ session_count' =
         IF has_session_data
            /\ session_dir \notin {sessions_by_dir[d].session_dir : d \in DOMAIN sessions_by_dir}
           THEN session_count + 1 ELSE session_count
    /\ pc' = "between"
    /\ UNCHANGED <<options, cost_mode, pricing_cache, global_processed_hashes,
                   hash_timestamps, sessions_by_dir, session_keys,
                   total_entries_processed, total_entries_skipped,
                   should_stop_early, session_dir, has_session_data,
                   result, files_opened, lines_read, fetch_attempts, tables_used,
                   admitted_sum, last, readmitted, cost_probe, corpus_vars, view_vars, live_vars, date_filter, paths, opened, pass_state, path_results, ev_threshold, with_eviction, without_eviction, ev_last, last_load, cache_hit>>

\* Lines 344-346 and 477-505: the loop ends (the list is exhausted or the
\* early exit is taken) and the result is built.
Finish ==
    /\ pc = "between"
    /\ should_stop_early' = EarlyExit
    /\ result' = ConvertSessions(session_keys, sessions_by_dir)
    /\ pc' = "done"
    /\ UNCHANGED <<options, cost_mode, pricing_cache, global_processed_hashes,
                   hash_timestamps, sessions_by_dir, session_keys,
                   total_entries_processed, total_entries_skipped, session_count,
                   session_dir, has_session_data, files_opened,
                   lines_read, fetch_attempts, tables_used, admitted_sum, last,
                   readmitted, cost_probe, corpus_vars, view_vars, live_vars, date_filter, paths, opened, pass_state, path_results, ev_threshold, with_eviction, without_eviction, ev_last, last_load, cache_hit>>

Next == OpenFile \/ ProcessLine \/ CloseFile \/ Finish

Spec == Init /\ [][Next]_vars

\* One call of calculate_entry_cost on an analyzer, for any entry.
ProbeCost ==
    /\ fetch_attempts < MaxFetches
    /\ \E data \in CostEntries :
       \E fetch_ok \in IF CallsCostFromTokens(cost_mode, data) /\ pricing_cache = None
                         THEN BOOLEAN ELSE {TRUE} :
         LET calls == CallsCostFromTokens(cost_mode, data)
             pricing == get_pricing_data(pricing_cache, fetch_ok)
         IN  /\ cost_probe' =
                   [data |-> data,
                    cost |-> calculate_entry_cost(cost_mode, data, pricing.table),
                    table |-> IF calls THEN Some(pricing.table) ELSE None,
                    called |-> TRUE]
             /\ pricing_cache' = IF calls THEN pricing.cache ELSE pricing_cache
             /\ fetch_attempts' = fetch_attempts + (IF calls THEN pricing.fetches ELSE 0)
             /\ tables_used' =
                   IF calls THEN tables_used \cup {pricing.table} ELSE tables_used
    /\ UNCHANGED <<options, global_processed_hashes, hash_timestamps,
                   sessions_by_dir, session_keys, total_entries_processed,
                   total_entries_skipped, session_count, should_stop_early, pc,
                   session_dir, has_session_data, result, files_opened, lines_read,
                   admitted_sum, last, readmitted, cost_mode, corpus_vars, view_vars, live_vars, date_filter, paths, opened, pass_state, path_results, ev_threshold, with_eviction, without_eviction, ev_last, last_load, cache_hit>>

\* An analyzer of any cost mode whose calculate_entry_cost is called.
InitCost ==
    /\ Init
    /\ options = <<"daily", None>>
SpecCost == InitCost /\ [][ProbeCost]_vars

\* The pass over a corpus of replicated conversation logs, run as the
\* daily or the monthly command in display mode (the dedup check reads
\* neither the command nor the cost mode).
InitReplay ==
    /\ Init
    /\ options[2] = None
    /\ cost_mode = "display"
NextReplay == OpenFile \/ ProcessReplayLine \/ CloseFile \/ Finish
SpecReplay == InitReplay /\ [][NextReplay]_vars

\* ------------------------------------------- the cleanup and its threshold
\* Values dedup_cleanup_threshold (line 335) may be given.
Thresholds == {0, 1, 2}

\* Usage lines of three responses, logged with or without a timestamp.
EvictionLines ==
    {[e EXCEPT !.message_id = mid, !.timestamp = ts] :
       e \in {l \in Fingerprinted : l.message_id = "m1"},
       mid \in {"m1", "m2", "m3"},
       ts \in {NoTimestamp} \cup {[kind |-> "iso", wall |-> h] : h \in Hours}}

\* old_hashes_at with a cutoff of one window, the cutoff included.
old_hashes_at_one_window_inclusive(threshold, current_timestamp, timestamps) ==
    IF Cardinality(DOMAIN timestamps) > threshold /\ current_timestamp # None
      THEN {h \in DOMAIN timestamps :
              timestamps[h] <= current_timestamp[1] - dedup_window_hours}
      ELSE {}

\* Lines 402-408 for a value of dedup_cleanup_threshold: the hashes the
\* periodic cleanup removes.
old_hashes_at(threshold, current_timestamp, timestamps) ==
    IF Cardinality(DOMAIN timestamps) > threshold /\ current_timestamp # None
      THEN {h \in DOMAIN timestamps :
              timestamps[h] < current_timestamp[1] - dedup_window_hours * 2}
      ELSE {}

\* Line 335: the pass is built with another cleanup threshold.
SetThreshold ==
    /\ ev_last.read = 0
    /\ ev_threshold = dedup_cleanup_threshold
    /\ \E threshold \in Thresholds \ {dedup_cleanup_threshold} : ev_threshold' = threshold
    /\ UNCHANGED <<options, cost_mode, pricing_cache, global_processed_hashes,
                   hash_timestamps, sessions_by_dir, session_keys,
                   total_entries_processed, total_entries_skipped, session_count,
                   should_stop_early, pc, session_dir, has_session_data, result,
                   files_opened, lines_read, fetch_attempts, tables_used,
                   admitted_sum, last, readmitted, cost_probe, corpus_vars,
                   view_vars, live_vars, date_filter, paths, opened, pass_state, path_results, with_eviction,
                   without_eviction, ev_last, last_load, cache_hit>>

\* Lines 365-408 for one usage line, on the dedup store of the pass and on
\* the store of the same pass run without lines 402-408.
DedupStep ==
    /\ ev_last.read < MaxEvictionLines
    /\ \E line \in EvictionLines :
         LET unique_hash == create_unique_hash(line)
             current_timestamp == ParseTimestamp(line.timestamp)
             skip == skip_duplicate(unique_hash, current_timestamp,
                                    with_eviction.hashes, with_eviction.timestamps)
             skip_without ==
                 skip_duplicate(unique_hash, current_timestamp,
                                without_eviction.hashes, without_eviction.timestamps)
             marked_hashes == MarkHashes(unique_hash, with_eviction.hashes)
             marked_timestamps ==
                 MarkTimestamps(unique_hash, current_timestamp, with_eviction.timestamps)
             old == old_hashes_at(ev_threshold, current_timestamp, marked_timestamps)
         IN  /\ with_eviction' =
                   IF skip THEN with_eviction
                   ELSE [hashes |-> marked_hashes \ old,
                         timestamps |-> [h \in DOMAIN marked_timestamps \ old |->
                                           marked_timestamps[h]]]
             /\ without_eviction' =
                   IF skip_without THEN without_eviction
                   ELSE [hashes |-> MarkHashes(unique_hash, without_eviction.hashes),
                         timestamps |-> MarkTimestamps(unique_hash, current_timestamp,
                                                       without_eviction.timestamps)]
             /\ ev_last' =
                   [line |-> line,
                    skipped |-> skip,
                    skipped_without |-> skip_without,
                    in_order |->
                        /\ ev_last.in_order
                        /\ current_timestamp # None
                        /\ ev_last.read = 0
                           \/ ev_last.line.timestamp.wall <= current_timestamp[1],
                    evicted |-> ev_last.evicted \/ (~skip /\ old # {}),
                    forgotten |-> unique_hash[1] \in
                                    without_eviction.hashes \ with_eviction.hashes,
                    read |-> ev_last.read + 1]
    /\ UNCHANGED <<options, cost_mode, pricing_cache, global_processed_hashes,
                   hash_timestamps, sessions_by_dir, session_keys,
                   total_entries_processed, total_entries_skipped, session_count,
                   should_stop_early, pc, session_dir, has_session_data, result,
                   files_opened, lines_read, fetch_attempts, tables_used,
                   admitted_sum, last, readmitted, cost_probe, corpus_vars,
                   view_vars, live_vars, date_filter, paths, opened, pass_state, path_results, ev_threshold,
                   last_load, cache_hit>>

\* The dedup decisions of a pass, for any cleanup threshold.
NextEviction == SetThreshold \/ DedupStep
SpecEviction == InitReplay /\ [][NextEviction]_vars

\* ------------------------------------------------- discovery and file order
\* len(file_tuples) < 100 at line 292 (100 in the source; scaled down so that
\* corpora on both sides of it are explored).
small_dataset == 3

\* datetime.max, in hours since 2024-01-01T00:00.
datetime_max == 69916176

\* The session directories of the corpus: <<replica root, directory name>>.
CorpusDirs == SessionDirs \cup {<<"vm1", "-home-b">>}

\* st_mtime of a file, in hours; None when stat and open fail.
Mtimes == {None, Some(0), Some(1)}

\* The usage line of ReplayLines with this message id and timestamp.
Ev(mid, ts) == CHOOSE l \in ReplayLines : l.message_id = mid /\ l.timestamp = ts
Iso(h) == [kind |-> "iso", wall |-> h]

\* What a file of the corpus may hold.
Contents ==
    {<<Ev("m1", Iso(0))>>,
     <<Ev("m1", Iso(25))>>,
     <<Ev("m2", Iso(0)), Ev("m1", Iso(1))>>,
     <<Ev("m1", [kind |-> "unparsable", wall |-> 0])>>}

\* A .jsonl file: one per session directory.
Files == [session_dir : CorpusDirs, mtime : Mtimes, lines : Contents]

\* get_earliest_timestamp: the earliest parsable timestamp of the file, None
\* when there is none or the file cannot be opened.
get_earliest_timestamp(jsonl_file) ==
    LET walls == {jsonl_file.lines[i].timestamp.wall :
                    i \in {j \in DOMAIN jsonl_file.lines :
                             jsonl_file.lines[j].timestamp.kind = "iso"}}
    IN  IF jsonl_file.mtime = None \/ walls = {}
          THEN None
          ELSE Some(CHOOSE w \in walls : \A v \in walls : w <= v)

\* SortKey that never reads the content timestamp.
SortKey_no_content(jsonl_file, n) ==
    LET file_mtime ==
            IF jsonl_file.mtime = None THEN datetime_max ELSE jsonl_file.mtime[1]
    IN  <<file_mtime, file_mtime>>

\* Lines 279-298: the sort key of one file among n.
SortKey(jsonl_file, n) ==
    LET file_mtime ==
            IF jsonl_file.mtime = None THEN datetime_max ELSE jsonl_file.mtime[1]
        content_timestamp ==
            IF n < small_dataset THEN get_earliest_timestamp(jsonl_file) ELSE None
    IN  <<file_mtime,
          IF content_timestamp # None THEN content_timestamp[1] ELSE file_mtime>>

\* Tuple comparison of two keys.
KeyLess(a, b) == a[1] < b[1] \/ (a[1] = b[1] /\ a[2] < b[2])

\* list.sort(key=...) is stable: x goes after every element whose key is not
\* greater than its own.
RECURSIVE InsertByKey(_, _, _)
InsertByKey(x, sorted, n) ==
    IF sorted = <<>> THEN <<x>>
    ELSE IF KeyLess(SortKey(x, n), SortKey(Head(sorted), n))
           THEN <<x>> \o sorted
           ELSE <<Head(sorted)>> \o InsertByKey(x, Tail(sorted), n)
RECURSIVE SortFrom(_, _, _)
SortFrom(todo, sorted, n) ==
    IF todo = <<>> THEN sorted
    ELSE SortFrom(Tail(todo), InsertByKey(Head(todo), sorted, n), n)

\* sort_all_files_by_timestamp (lines 275-306).
sort_all_files_by_timestamp(file_tuples) ==
    SortFrom(file_tuples, <<>>, Len(file_tuples))

\* The locals of process_files_with_global_dedup that a line can change.
EmptyPass == [hashes |-> {}, timestamps |-> <<>>, sessions |-> <<>>, keys |-> <<>>]

\* Lines 353-466 for the lines of one file, from a state of the locals; an
\* exception leaves the file (lines 472-475).  Costs are those of display
\* mode, which reads no price table.
RECURSIVE PassLines(_, _, _)
PassLines(st, dir, lines) ==
    IF lines = <<>> THEN st
    ELSE
      LET data == Head(lines)
          decoded == Decode(data)
          unique_hash == create_unique_hash(data)
          current_timestamp == ParseTimestamp(data.timestamp)
          skip == skip_duplicate(unique_hash, current_timestamp, st.hashes, st.timestamps)
          marked_hashes == MarkHashes(unique_hash, st.hashes)
          marked_timestamps == MarkTimestamps(unique_hash, current_timestamp, st.timestamps)
          old == old_hashes(current_timestamp, marked_timestamps)
          entry_cost == calculate_entry_cost("display", data, FallbackPricing)
          raises == ActivityDateRaises(need_timestamps, data.timestamp)
          date == activity_date(need_timestamps, data.timestamp)
          marked == [st EXCEPT !.hashes = marked_hashes \ old,
                               !.timestamps = [h \in DOMAIN marked_timestamps \ old |->
                                                 marked_timestamps[h]]]
          applied ==
              [marked EXCEPT
                 !.sessions = [d \in DOMAIN st.sessions \cup {dir} |->
                                 IF d = dir
                                   THEN Aggregate(SessionOf(st.sessions, dir), dir, data,
                                                  entry_cost, need_timestamps, date)
                                   ELSE st.sessions[d]],
                 !.keys = IF dir \in DOMAIN st.sessions THEN st.keys
                          ELSE Append(st.keys, dir)]
      IN  CASE decoded \in {"continue", "non_usage"} -> PassLines(st, dir, Tail(lines))
            [] decoded \in {"raise", "count_raise"} -> st
            [] skip -> PassLines(st, dir, Tail(lines))
            [] raises -> marked
            [] OTHER -> PassLines(applied, dir, Tail(lines))

\* Lines 341-475 for the sorted files; a file that cannot be opened is
\* skipped.
RECURSIVE PassFiles(_, _)
PassFiles(st, files) ==
    IF files = <<>> THEN st
    ELSE LET f == Head(files)
         IN  PassFiles(IF f.mtime = None THEN st
                       ELSE PassLines(st, f.session_dir, f.lines),
                       Tail(files))

\* process_files_with_global_dedup as a function of the sorted files.
process_files_with_global_dedup(sorted_file_tuples) ==
    LET st == PassFiles(EmptyPass, sorted_file_tuples)
    IN  ConvertSessions(st.keys, st.sessions)

\* The orders in which discovery may enumerate the files on disk: replica
\* root by replica root (lines 536-550), each in any order.
Enumerations(files) ==
    {order \in [1..Cardinality(files) -> files] :
       /\ \A i, j \in DOMAIN order : i # j => order[i] # order[j]
       /\ \A i, j, k \in DOMAIN order :
            (i < j /\ j < k /\ order[i].session_dir[1] = order[k].session_dir[1])
              => order[j].session_dir[1] = order[i].session_dir[1]
       /\ \A i, j, k \in DOMAIN order :
            (i < j /\ j < k /\ order[i].session_dir = order[k].session_dir)
              => order[j].session_dir = order[i].session_dir}

\* ------------------------------------------------------------- date filters
\* options.get('since') / options.get('until'): the key is absent; the empty
\* string; a string strptime(..., '%Y-%m-%d') rejects; or a date it accepts,
\* given by its day number (day 0 holds hour 0).
NoDate == [kind |-> "absent", day |-> 0]
DateOptions ==
    {NoDate, [kind |-> "empty", day |-> 0], [kind |-> "invalid", day |-> 0]}
    \cup {[kind |-> "date", day |-> d] : d \in {0, 1, 2}}

\* ParseDate that ignores a string strptime rejects.
ParseDate_ignore_invalid(option) ==
    CASE option.kind = "date" -> [abort |-> FALSE, date |-> Some(option.day)]
      [] OTHER -> [abort |-> FALSE, date |-> None]

\* Lines 515-521 and 523-529: a falsy option is no filter, a string strptime
\* rejects makes the function return [], a date is parsed to its midnight.
ParseDate(option) ==
    CASE option.kind \in {"absent", "empty"} -> [abort |-> FALSE, date |-> None]
      [] option.kind = "invalid" -> [abort |-> TRUE, date |-> None]
      [] OTHER -> [abort |-> FALSE, date |-> Some(option.day)]

\* The files of a corpus read with date filters: modified on day 0, 1 or 2.
FilterContents ==
    {<<Ev("m1", Iso(0))>>,
     <<Ev("m1", Iso(25))>>,
     <<Ev("m1", Iso(0)), Ev("m2", Iso(49))>>,
     <<Ev("m1", [kind |-> "unparsable", wall |-> 0])>>}
FilterFiles == [session_dir : CorpusDirs, mtime : {None, Some(1), Some(25), Some(49)}, lines : FilterContents]

\* get_file_date_range: the earliest and the latest parsable timestamp of
\* the file, both None when there is none or the file cannot be opened.
get_file_date_range(jsonl_file) ==
    LET walls == {jsonl_file.lines[i].timestamp.wall :
                    i \in {j \in DOMAIN jsonl_file.lines :
                             jsonl_file.lines[j].timestamp.kind = "iso"}}
    IN  IF jsonl_file.mtime = None \/ walls = {}
          THEN <<None, None>>
          ELSE <<Some(CHOOSE w \in walls : \A v \in walls : w <= v),
                 Some(CHOOSE w \in walls : \A v \in walls : v <= w)>>

\* Lines 214-228: the modification time alone excludes the file (a failing
\* stat excludes nothing).  since_date and until_date are midnights, given
\* by their day; until_plus_day is 23:59:59 of the until day.
ExcludedByMtime(jsonl_file, since_date, until_date) ==
    /\ jsonl_file.mtime # None
    /\ \/ since_date # None /\ jsonl_file.mtime[1] < since_date[1] * 24
       \/ until_date # None /\ jsonl_file.mtime[1] > until_date[1] * 24 + 23

\* should_include_file (lines 209-242).
should_include_file(jsonl_file, since_date, until_date) ==
    IF since_date = None /\ until_date = None THEN TRUE
    ELSE IF ExcludedByMtime(jsonl_file, since_date, until_date) THEN FALSE
         ELSE LET range == get_file_date_range(jsonl_file)
                  earliest == range[1]
                  latest == range[2]
              IN  CASE earliest = None /\ latest = None -> FALSE
                    [] since_date # None /\ latest # None
                       /\ latest[1] \div 24 < since_date[1] -> FALSE
                    [] until_date # None /\ earliest # None
                       /\ earliest[1] \div 24 > until_date[1] -> FALSE
                    [] OTHER -> TRUE

\* The files open() is called on during a run that does not abort: by
\* get_file_date_range for the files the pre-filter lets through, by
\* get_earliest_timestamp for the included files of a small dataset, and by
\* the pass for every included file.
OpenedBy(files, since_date, until_date) ==
    {f \in files :
       \/ should_include_file(f, since_date, until_date)
       \/ /\ since_date # None \/ until_date # None
          /\ ~ExcludedByMtime(f, since_date, until_date)}

\* main, lines 836-843 and 860: the options of the run are built from the
\* command line (or by a caller of aggregate_data_parallel).
BuildOptions ==
    /\ runs = 0
    /\ date_filter = <<NoDate, NoDate>>
    /\ \E since \in DateOptions, until \in DateOptions :
         /\ <<since, until>> # <<NoDate, NoDate>>
         /\ date_filter' = <<since, until>>
    /\ UNCHANGED <<options, cost_mode, pricing_cache, global_processed_hashes,
                   hash_timestamps, sessions_by_dir, session_keys,
                   total_entries_processed, total_entries_skipped, session_count,
                   should_stop_early, pc, session_dir, has_session_data, result,
                   files_opened, lines_read, fetch_attempts, tables_used,
                   admitted_sum, last, readmitted, cost_probe, corpus_vars,
                   view_vars, live_vars, paths, opened, pass_state, path_results,
                   ev_threshold, with_eviction, without_eviction, ev_last, last_load, cache_hit>>

\* A log file, one of `files`, appears on disk, in a session directory that
\* has none yet.
WriteFileFrom(files, max_corpus) ==
    /\ runs = 0
    /\ Cardinality(corpus) < max_corpus
    /\ \E f \in files :
         /\ \A g \in corpus : g.session_dir # f.session_dir
         /\ corpus' = corpus \cup {f}
    /\ UNCHANGED <<options, cost_mode, pricing_cache, global_processed_hashes,
                   hash_timestamps, sessions_by_dir, session_keys,
                   total_entries_processed, total_entries_skipped, session_count,
                   should_stop_early, pc, session_dir, has_session_data, result,
                   files_opened, lines_read, fetch_attempts, tables_used,
                   admitted_sum, last, readmitted, cost_probe,
                   all_jsonl_files, sorted_files, runs, run_result, prev_result,
                   view_vars, live_vars, date_filter, paths, opened, pass_state, path_results, ev_threshold, with_eviction, without_eviction, ev_last, last_load, cache_hit>>
WriteFile == WriteFileFrom(Files, MaxCorpus)
WriteFilterFile == WriteFileFrom(FilterFiles, MaxFilterCorpus)

\* aggregate_data_parallel (lines 507-573): parse the date filters, discover
\* the replica roots, enumerate and filter the files, sort, process.
aggregate_data_parallel ==
    /\ runs < MaxRuns
    /\ corpus # {}
    /\ LET since == ParseDate(date_filter[1])
           until == ParseDate(date_filter[2])
       IN  IF since.abort \/ until.abort
             THEN /\ run_result' = <<>>
                  /\ all_jsonl_files' = <<>>
                  /\ sorted_files' = <<>>
                  /\ paths' = None
                  /\ opened' = {}
                  /\ pass_state' = None
             ELSE \E order \in Enumerations(corpus) :
                    LET included ==
                            SelectSeq(order, LAMBDA f :
                                        should_include_file(f, since.date, until.date))
                        sorted == sort_all_files_by_timestamp(included)
                        st == PassFiles(EmptyPass, sorted)
                    IN  /\ all_jsonl_files' = included
                        /\ sorted_files' = sorted
                        /\ run_result' = ConvertSessions(st.keys, st.sessions)
                        /\ paths' = Some({f.session_dir[1] : f \in corpus})
                        /\ opened' = OpenedBy(corpus, since.date, until.date)
                        /\ pass_state' = Some(st)
    /\ prev_result' = run_result
    /\ runs' = runs + 1
    /\ UNCHANGED <<options, cost_mode, pricing_cache, global_processed_hashes,
                   hash_timestamps, sessions_by_dir, session_keys,
                   total_entries_processed, total_entries_skipped, session_count,
                   should_stop_early, pc, session_dir, has_session_data, result,
                   files_opened, lines_read, fetch_attempts, tables_used,
                   admitted_sum, last, readmitted, cost_probe, corpus, view_vars,
                   live_vars, date_filter, path_results, ev_threshold, with_eviction, without_eviction, ev_last, last_load, cache_hit>>

\* Runs of aggregate_data_parallel over a corpus that does not change between
\* them, in display mode, for the monthly command.
InitCorpus ==
    /\ Init
    /\ options = <<"monthly", None>>
    /\ cost_mode = "display"
NextCorpus == WriteFile \/ aggregate_data_parallel
SpecCorpus == InitCorpus /\ [][NextCorpus]_vars

\* Runs of the daily command with --since / --until over a corpus, in
\* display mode.
InitFilter ==
    /\ Init
    /\ options = <<"daily", None>>
    /\ cost_mode = "display"
NextFilter == BuildOptions \/ WriteFilterFile \/ aggregate_data_parallel
SpecFilter == InitFilter /\ [][NextFilter]_vars

\* ------------------------- the parallel-by-path variant (src/claude-usage.py)
\* The files of a corpus this variant reads: usage lines with a fingerprint
\* and an ISO timestamp, one file holding the same response twice.
ParallelContents ==
    {<<Ev("m1", Iso(0))>>,
     <<Ev("m1", Iso(0)), Ev("m1", Iso(1))>>,
     <<Ev("m2", Iso(0)), Ev("m1", Iso(25))>>}
ParallelFiles == [session_dir : CorpusDirs, mtime : {None, Some(0)}, lines : ParallelContents]

\* The accumulators of parse_session_file (lines 148-154).
EmptyParse ==
    [total_cost |-> 0, input_tokens |-> 0, output_tokens |-> 0,
     cache_creation_tokens |-> 0, cache_read_tokens |-> 0,
     last_activity |-> None, models_used |-> {}]

\* Lines 193-198: the cost of one line; pricing_data is what get_pricing_data
\* returns when line 198 reaches calculate_cost_from_tokens.
ParseCost(data, pricing_data) ==
    IF data.costUSD.kind = "num" THEN data.costUSD.val
    ELSE IF ModelTruthy(data.model)
           THEN calculate_cost_from_tokens(data.usage, data.model, pricing_data)
           ELSE 0

\* Lines 157-207 for the lines of one file: the accumulators after the last
\* line, None when a line raises something else than JSONDecodeError (the
\* handler of line 231 then returns None), and the worker's analyzer
\* afterwards.  A line without a declared cost that names a model calls
\* calculate_cost_from_tokens, which calls get_pricing_data before it looks
\* the model up: with an empty cache that is a call of requests.get, which
\* succeeds when it is the worker's call number first_ok (0: none succeeds).
\* The timestamp is cut to its first ten characters, the day.
RECURSIVE ParseLines(_, _, _, _)
ParseLines(acc, lines, worker, first_ok) ==
    IF lines = <<>> THEN [parsed |-> Some(acc), worker |-> worker]
    ELSE
      LET data == Head(lines)
          day == IF data.timestamp.kind = "iso" THEN Some(data.timestamp.wall \div 24)
                 ELSE None
          calls == data.costUSD.kind # "num" /\ ModelTruthy(data.model)
          pricing == get_pricing_data(worker.pricing_cache,
                                      worker.fetch_attempts + 1 = first_ok)
          after == IF calls
                     THEN [pricing_cache |-> pricing.cache,
                           fetch_attempts |-> worker.fetch_attempts + pricing.fetches,
                           tables_used |-> worker.tables_used \cup {pricing.table}]
                     ELSE worker
      IN  CASE data.kind \in {"blank", "invalid_json", "no_message", "message_text"} ->
                 ParseLines(acc, Tail(lines), worker, first_ok)
            [] data.kind \in {"scalar", "message_null", "message_usage_text"} ->
                 [parsed |-> None, worker |-> worker]
            [] OTHER ->
                 ParseLines(
                   [total_cost |-> acc.total_cost + ParseCost(data, pricing.table),
                    input_tokens |-> acc.input_tokens + data.usage.input_tokens,
                    output_tokens |-> acc.output_tokens + data.usage.output_tokens,
                    cache_creation_tokens |->
                        acc.cache_creation_tokens + data.usage.cache_creation_input_tokens,
                    cache_read_tokens |->
                        acc.cache_read_tokens + data.usage.cache_read_input_tokens,
                    last_activity |->
                        IF day # None
                           /\ (acc.last_activity = None \/ day[1] > acc.last_activity[1])
                          THEN day ELSE acc.last_activity,
                    models_used |->
                        IF data.model # "absent"
                          THEN acc.models_used \cup {data.model} ELSE acc.models_used],
                   Tail(lines), after, first_ok)

\* parse_session_file (lines 145-232): the record of one file, None when the
\* file cannot be read, a line raises, or the totals are empty, and the
\* worker's analyzer afterwards.
parse_session_file(jsonl_file, worker, first_ok) ==
    LET read == IF jsonl_file.mtime = None THEN [parsed |-> None, worker |-> worker]
                ELSE ParseLines(EmptyParse, jsonl_file.lines, worker, first_ok)
        parsed == read.parsed
    IN  [worker |-> read.worker,
         session_data |->
           IF parsed = None THEN None
           ELSE IF parsed[1].input_tokens = 0 /\ parsed[1].output_tokens = 0
                   /\ parsed[1].total_cost = 0
             THEN None
             ELSE Some([sessionId |-> jsonl_file.session_dir[2],
                        projectPath |-> project_name(jsonl_file.session_dir[2]),
                        inputTokens |-> parsed[1].input_tokens,
                        outputTokens |-> parsed[1].output_tokens,
                        cacheCreationTokens |-> parsed[1].cache_creation_tokens,
                        cacheReadTokens |-> parsed[1].cache_read_tokens,
                        totalCost |-> parsed[1].total_cost,
                        lastActivity |->
                            IF parsed[1].last_activity = None
                              THEN EpochDay ELSE parsed[1].last_activity[1],
                        modelsUsed |-> parsed[1].models_used])]

\* Lines 127-140: the records of the files, in the order they are listed,
\* and the worker's analyzer after the last file.
RECURSIVE SessionRecords(_, _, _)
SessionRecords(files, worker, first_ok) ==
    IF files = <<>> THEN [data |-> <<>>, worker |-> worker]
    ELSE LET file == parse_session_file(Head(files), worker, first_ok)
             rest == SessionRecords(Tail(files), file.worker, first_ok)
         IN  [data |-> (IF file.session_data = None THEN <<>>
                        ELSE <<file.session_data[1]>>) \o rest.data,
              worker |-> rest.worker]

\* load_data_for_path (lines 118-143): result['data'] of the worker of one
\* replica root, the files on disk being listed in this order, and the
\* worker's analyzer at the end.  The worker is another process: it starts
\* from a copy of the parent's analyzer (line 251 submits the bound method),
\* kept here with the calls of requests.get the worker has made and the
\* price tables its cost computations have used.
load_data_for_path(claude_path, order, cache, first_ok) ==
    SessionRecords(SelectSeq(order, LAMBDA f : f.session_dir[1] = claude_path),
                   [pricing_cache |-> cache, fetch_attempts |-> 0, tables_used |-> {}],
                   first_ok)

\* Lines 254-267: all_data, extended with the result of each worker as it
\* completes (the roots complete in the order the file order lists them),
\* and the calls of requests.get the workers made altogether.
RECURSIVE as_completed(_, _)
as_completed(order, results) ==
    IF order = <<>> THEN [all_data |-> <<>>, fetch_attempts |-> 0]
    ELSE LET path == Head(order).session_dir[1]
             rest == as_completed(
                       SelectSeq(order, LAMBDA f : f.session_dir[1] # path), results)
         IN  [all_data |-> results[path].data \o rest.all_data,
              fetch_attempts |->
                  results[path].worker.fetch_attempts + rest.fetch_attempts]

\* A log file of the parallel variant's corpus appears on disk.
WriteParallelFile == WriteFileFrom(ParallelFiles, MaxCorpus)

\* aggregate_data_parallel of src/claude-usage.py (lines 234-269): one worker
\* per replica root, the results being appended as the workers complete.
\* The order lists the roots in completion order and the files of each root
\* in the order its worker reads them.  Each worker fetches the price table
\* on its own: first_ok gives, for each root, which of its worker's calls of
\* requests.get succeeds (0: none; no worker makes more calls than there are
\* lines).  What a worker caches stays in its process, so the parent's
\* pricing_cache is what it was.
aggregate_data_by_path ==
    /\ runs < MaxRuns
    /\ corpus # {}
    /\ LET roots == {f.session_dir[1] : f \in corpus}
           most == Cardinality(UNION {{<<f, i>> : i \in DOMAIN f.lines} : f \in corpus})
       IN  \E order \in Enumerations(corpus), first_ok \in [roots -> 0..most] :
             LET results == [claude_path \in roots |->
                               load_data_for_path(claude_path, order, pricing_cache,
                                                  first_ok[claude_path])]
                 done == as_completed(order, results)
             IN  /\ all_jsonl_files' = order
                 /\ path_results' = [claude_path \in roots |-> results[claude_path].data]
                 /\ run_result' = done.all_data
                 /\ fetch_attempts' = fetch_attempts + done.fetch_attempts
                 /\ tables_used' =
                      tables_used
                        \cup UNION {results[claude_path].worker.tables_used :
                                      claude_path \in roots}
    /\ paths' = Some({f.session_dir[1] : f \in corpus})
    /\ opened' = corpus
    /\ prev_result' = run_result
    /\ runs' = runs + 1
    /\ UNCHANGED <<options, cost_mode, pricing_cache, global_processed_hashes,
                   hash_timestamps, sessions_by_dir, session_keys,
                   total_entries_processed, total_entries_skipped, session_count,
                   should_stop_early, pc, session_dir, has_session_data, result,
                   files_opened, lines_read, admitted_sum, last, readmitted,
                   cost_probe, corpus, sorted_files,
                   view_vars, live_vars, date_filter, pass_state, ev_threshold, with_eviction, without_eviction, ev_last,
                   last_load, cache_hit>>

\* Runs of the parallel variant over a corpus that does not change between
\* them.
InitParallel ==
    /\ Init
    /\ options = <<"daily", None>>
    /\ cost_mode = "auto"
NextParallel == WriteParallelFile \/ aggregate_data_by_path
SpecParallel == InitParallel /\ [][NextParallel]_vars

\* ------------------------------------------------------------ the read views
\* `limit or 30` of process_daily_with_projects (30 in the source; scaled down
\* so that lists on both sides of it are explored).
daily_display_limit == 2
\* `limit or 10` of process_monthly_data.
monthly_display_limit == 10
\* The date 'unknown'; as a string it sorts after every YYYY-MM-DD.
unknown_date == 999999

\* The session records a display function may be handed.
ViewSessions ==
    {[sessionId |-> id, projectPath |-> project_name(id), inputTokens |-> 1,
      outputTokens |-> 0, cacheCreationTokens |-> 0, cacheReadTokens |-> 0,
      totalCost |-> c, lastActivity |-> d, modelsUsed |-> {}] :
       id \in {"-home-a", "-home-b"}, c \in {5, 7}, d \in {EpochDay, 0, 1, 31}}

\* Lines 583-591: the date a session is grouped under.
DateOf(session) ==
    IF session.lastActivity = EpochDay THEN unknown_date ELSE session.lastActivity

\* date[:7] of a date of 2024 (day 0 is 2024-01-01): the month, from 0;
\* 'unknown'[:7] is 'unknown'.
MonthOf(date) ==
    CASE date = unknown_date -> unknown_date
      [] date < 31 -> 0
      [] date < 60 -> 1
      [] OTHER -> 2

RECURSIVE SumCost(_)
SumCost(entries) ==
    IF entries = <<>> THEN 0 ELSE Head(entries).totalCost + SumCost(Tail(entries))
RECURSIVE SumSessions(_)
SumSessions(entries) ==
    IF entries = <<>> THEN 0 ELSE Head(entries).totalSessions + SumSessions(Tail(entries))
RECURSIVE SumTokens(_)
SumTokens(entries) ==
    IF entries = <<>> THEN 0
    ELSE Head(entries).inputTokens + Head(entries).outputTokens
         + Head(entries).cacheCreationTokens + Head(entries).cacheReadTokens
         + SumTokens(Tail(entries))

\* The numbers of a set as a sequence, descending and ascending.
RECURSIVE Descending(_)
Descending(numbers) ==
    IF numbers = {} THEN <<>>
    ELSE LET m == CHOOSE x \in numbers : \A y \in numbers : y <= x
         IN  <<m>> \o Descending(numbers \ {m})
RECURSIVE Ascending(_)
Ascending(numbers) ==
    IF numbers = {} THEN <<>>
    ELSE LET m == CHOOSE x \in numbers : \A y \in numbers : x <= y
         IN  <<m>> \o Ascending(numbers \ {m})

\* The project names of the sessions, in order of first appearance.
RECURSIVE ProjectOrder(_, _)
ProjectOrder(sessions, seen) ==
    IF sessions = <<>> THEN <<>>
    ELSE LET p == project_name(Head(sessions).sessionId)
         IN  IF p \in seen THEN ProjectOrder(Tail(sessions), seen)
             ELSE <<p>> \o ProjectOrder(Tail(sessions), seen \cup {p})

\* Lines 603-620: the group of one project among a day's sessions.
ProjectGroup(sessions, p) ==
    LET mine == SelectSeq(sessions, LAMBDA x : project_name(x.sessionId) = p)
    IN  [project |-> p, sessions |-> Len(mine), totalCost |-> SumCost(mine),
         totalTokens |-> SumTokens(mine)]

\* sorted(..., key=totalCost, reverse=True), which is stable.
RECURSIVE InsertByCost(_, _)
InsertByCost(x, sorted) ==
    IF sorted = <<>> THEN <<x>>
    ELSE IF x.totalCost > Head(sorted).totalCost
           THEN <<x>> \o sorted
           ELSE <<Head(sorted)>> \o InsertByCost(x, Tail(sorted))
RECURSIVE SortByCost(_, _)
SortByCost(todo, sorted) ==
    IF todo = <<>> THEN sorted
    ELSE SortByCost(Tail(todo), InsertByCost(Head(todo), sorted))

\* Lines 595-630: the entry of one date.
DayEntry(data, date) ==
    LET sessions == SelectSeq(data, LAMBDA x : DateOf(x) = date)
        order == ProjectOrder(sessions, {})
        groups == [i \in DOMAIN order |-> ProjectGroup(sessions, order[i])]
    IN  [date |-> date, projects |-> SortByCost(groups, <<>>),
         totalCost |-> SumCost(sessions), totalSessions |-> Len(sessions)]

\* `limit or default`.
LimitOr(limit, default) == IF limit = None \/ limit = Some(0) THEN default ELSE limit[1]

\* process_daily_with_projects: newest date first, cut to the display limit.
process_daily_with_projects(data, limit) ==
    LET dates == Descending({DateOf(data[i]) : i \in DOMAIN data})
        all == [i \in DOMAIN dates |-> DayEntry(data, dates[i])]
        display_limit == LimitOr(limit, daily_display_limit)
    IN  SubSeq(all, 1, IF Len(all) < display_limit THEN Len(all) ELSE display_limit)

\* process_monthly_data: oldest month first, cut to the last display_limit.
process_monthly_data(daily, limit) ==
    LET months == Ascending({MonthOf(daily[i].date) : i \in DOMAIN daily})
        group(m) == SelectSeq(daily, LAMBDA day : MonthOf(day.date) = m)
        all == [i \in DOMAIN months |->
                  [month |-> months[i], totalCost |-> SumCost(group(months[i])),
                   totalSessions |-> SumSessions(group(months[i]))]]
        display_limit == LimitOr(limit, monthly_display_limit)
    IN  SubSeq(all, IF Len(all) > display_limit THEN Len(all) - display_limit + 1 ELSE 1,
               Len(all))

\* The caller appends a session record to the list it will display.
AddSession ==
    /\ ~view_shown
    /\ Len(view_data) < MaxSessions
    /\ \E session \in ViewSessions : view_data' = Append(view_data, session)
    /\ UNCHANGED <<options, cost_mode, pricing_cache, global_processed_hashes,
                   hash_timestamps, sessions_by_dir, session_keys,
                   total_entries_processed, total_entries_skipped, session_count,
                   should_stop_early, pc, session_dir, has_session_data, result,
                   files_opened, lines_read, fetch_attempts, tables_used,
                   admitted_sum, last, readmitted, cost_probe, corpus_vars,
                   daily_data, monthly_data, view_shown, live_vars, date_filter, paths, opened, pass_state, path_results, ev_threshold, with_eviction, without_eviction, ev_last, last_load, cache_hit>>

\* display_monthly(data, limit): lines 699-704 of the built copy.
display_monthly ==
    /\ ~view_shown
    /\ view_data # <<>>
    /\ \E limit \in {None, Some(1)} :
         /\ daily_data' = process_daily_with_projects(view_data, None)
         /\ monthly_data' =
              process_monthly_data(process_daily_with_projects(view_data, None), limit)
    /\ view_shown' = TRUE
    /\ UNCHANGED <<options, cost_mode, pricing_cache, global_processed_hashes,
                   hash_timestamps, sessions_by_dir, session_keys,
                   total_entries_processed, total_entries_skipped, session_count,
                   should_stop_early, pc, session_dir, has_session_data, result,
                   files_opened, lines_read, fetch_attempts, tables_used,
                   admitted_sum, last, readmitted, cost_probe, corpus_vars,
                   view_data, live_vars, date_filter, paths, opened, pass_state, path_results, ev_threshold, with_eviction, without_eviction, ev_last, last_load, cache_hit>>

\* A session list is built and displayed by month.
NextViews == AddSession \/ display_monthly
SpecViews == Init /\ [][NextViews]_vars

\* ---------------------------------------------------------- the live monitor
\* Rates are exact fractions.
Frac(n, d) == [num |-> n, den |-> d]
FracAdd(a, b) == Frac(a.num * b.den + b.num * a.den, a.den * b.den)
FracEq(a, b) == a.num * b.den = b.num * a.den

\* A usage line of a live log: timestamp in seconds of UTC wall clock, the
\* sum of its four token counts, its declared cost.  Every live line here
\* is a usage event with a timestamp and a declared cost, so no price table
\* is read.
LiveEvent(t, tokens, cost) == [timestamp |-> t, tokens |-> tokens, costUSD |-> cost]
LiveContents ==
    {<<LiveEvent(600, 100, 6)>>,
     <<LiveEvent(600, 100, 6), LiveEvent(900, 400, 12)>>,
     <<LiveEvent(540, 100, 6), LiveEvent(600, 400, 12)>>,
     <<LiveEvent(600, 100, 6), LiveEvent(630, 400, 12)>>,
     <<LiveEvent(420, 100, 6)>>}

\* The log files the monitor may find: st_mtime in seconds.
LiveFiles ==
    [session_dir : CorpusDirs, name : {"f", "g"}, mtime : {-10, 590},
     events : LiveContents]

RECURSIVE SumField(_, _)
SumField(events, field) ==
    IF events = <<>> THEN 0 ELSE Head(events)[field] + SumField(Tail(events), field)

\* entry_time.strftime('%Y-%m-%d %H:%M'), as a number of minutes.
minute_key(entry_time) == entry_time \div 60

Min(numbers) == CHOOSE x \in numbers : \A y \in numbers : x <= y
Max(numbers) == CHOOSE x \in numbers : \A y \in numbers : y <= x


\* Lines 947-1079 of the built copy: the session_data of one recent file at
\* wall clock now.
FileSession(jsonl_file, now) ==
    LET utc_cutoff == now - 120
        kept == SelectSeq(jsonl_file.events, LAMBDA e : ~(e.timestamp < utc_cutoff))
        times == {kept[i].timestamp : i \in DOMAIN kept}
        recent_minutes == {minute_key(t) : t \in times}
        recent_tokens == SumField(kept, "tokens")
        recent_cost == SumField(kept, "costUSD")
        actual_duration_minutes ==
            IF Cardinality(recent_minutes) >= 2
              THEN Max(recent_minutes) - Min(recent_minutes) + 1
              ELSE 1
    IN  [sessionId |-> jsonl_file.session_dir[2],
         total_cost |-> recent_cost,
         total_tokens |-> recent_tokens,
         start_time |-> IF times = {} THEN None ELSE Some(Min(times)),
         last_activity |-> IF times = {} THEN None ELSE Some(Max(times)),
         file_modified |-> jsonl_file.mtime,
         tokens_by_minute |->
             [m \in recent_minutes |->
                SumField(SelectSeq(kept, LAMBDA e : minute_key(e.timestamp) = m), "tokens")],
         cost_by_minute |->
             [m \in recent_minutes |->
                SumField(SelectSeq(kept, LAMBDA e : minute_key(e.timestamp) = m), "costUSD")],
         realBurnRateTokens |->
             IF recent_minutes = {} THEN Frac(0, 1)
             ELSE Frac(recent_tokens, actual_duration_minutes),
         realBurnRateCost |->
             IF recent_minutes = {} THEN Frac(0, 1)
             ELSE Frac(recent_cost * 60, actual_duration_minutes)]

\* Lines 946-1081: the recent files one after the other; each file that has
\* recent data is stored under the name of its session directory.
RECURSIVE CollectSessions(_, _, _)
CollectSessions(recent_files, now, sessions) ==
    IF recent_files = <<>> THEN sessions
    ELSE LET f == Head(recent_files)
             s == FileSession(f, now)
             name == f.session_dir[2]
         IN  CollectSessions(
               Tail(recent_files), now,
               IF s.total_tokens > 0 \/ s.total_cost > 0
                 THEN [k \in DOMAIN sessions \cup {name} |->
                         IF k = name THEN s ELSE sessions[k]]
                 ELSE sessions)

\* get_current_session_data, the files being enumerated in this order.
get_current_session_data(order, now) ==
    LET cutoff_time == now - 600
        recent_files == SelectSeq(order, LAMBDA f : f.mtime > cutoff_time)
    IN  CollectSessions(recent_files, now, <<>>)

\* A session block: a persisted snapshot or the synthesized one.
Block(kind, start, end, tokens, cost, count, rate_tokens, rate_cost) ==
    [kind |-> kind, startTime |-> start, endTime |-> end,
     tokenCounts |-> [inputTokens |-> tokens \div 2, outputTokens |-> tokens \div 2,
                      cacheCreationInputTokens |-> 0, cacheReadInputTokens |-> 0],
     costUSD |-> cost, activeSessionCount |-> count,
     realBurnRateTokens |-> rate_tokens, realBurnRateCost |-> rate_cost]

\* The snapshots load_session_blocks may return: one ending soon, one late.
PersistedBlocks ==
    {Block("persisted", 0, e, 1000, 50, 0, Frac(0, 1), Frac(0, 1)) : e \in {602, 100000}}

\* The first block of the list whose endTime is after now, else None.
RECURSIVE FirstActive(_, _)
FirstActive(blocks, now) ==
    IF blocks = <<>> THEN None
    ELSE IF Head(blocks).endTime > now THEN Some(Head(blocks))
         ELSE FirstActive(Tail(blocks), now)

\* Lines 1116-1187: the block synthesized from the current sessions, None
\* when there is nothing to synthesize from.
RECURSIVE SumRates(_, _, _)
SumRates(sessions, names, field) ==
    IF names = {} THEN Frac(0, 1)
    ELSE LET n == CHOOSE x \in names : TRUE
         IN  FracAdd(sessions[n][field], SumRates(sessions, names \ {n}, field))
RECURSIVE SumTotals(_, _, _)
SumTotals(sessions, names, field) ==
    IF names = {} THEN 0
    ELSE LET n == CHOOSE x \in names : TRUE
         IN  sessions[n][field] + SumTotals(sessions, names \ {n}, field)
synthetic_block(sessions) ==
    LET names == DOMAIN sessions
        total_tokens == SumTotals(sessions, names, "total_tokens")
        total_cost == SumTotals(sessions, names, "total_cost")
        starts == {sessions[n].start_time[1] : n \in {k \in names : sessions[k].start_time # None}}
        lasts == {sessions[n].last_activity[1] :
                    n \in {k \in names : sessions[k].last_activity # None}}
    IN  IF names # {} /\ lasts # {} /\ total_tokens > 0
          THEN Some(Block("synthetic",
                          IF starts # {} THEN Min(starts) ELSE Max(lasts),
                          Max(lasts) + 600, total_tokens, total_cost,
                          Cardinality(names),
                          SumRates(sessions, names, "realBurnRateTokens"),
                          SumRates(sessions, names, "realBurnRateCost")))
          ELSE None

\* Lines 1103-1189: detection without a usable cache.  The result is
\* <<active block, cached_blocks, cache_time>>.
detect(now, blocks, order) ==
    LET persisted == FirstActive(blocks, now)
        synthetic == synthetic_block(get_current_session_data(order, now))
    IN  IF persisted # None THEN <<persisted, Some(blocks), Some(now)>>
        ELSE IF synthetic # None THEN <<synthetic, Some(<<synthetic[1]>>), Some(now)>>
        ELSE <<None, Some(blocks), Some(now)>>

\* find_active_session_block with a cache hit returning the current time
\* as the cache time.
find_active_session_block_touch(cached, cached_at, now, blocks, order) ==
    IF cached # None /\ cached_at # None /\ now - cached_at[1] < 30
      THEN <<FirstActive(cached[1], now), cached, Some(now)>>
      ELSE detect(now, blocks, order)

\* find_active_session_block(cached_blocks, cache_time) at wall clock now.
find_active_session_block(cached, cached_at, now, blocks, order) ==
    IF cached # None /\ cached_at # None /\ now - cached_at[1] < 30
      THEN <<FirstActive(cached[1], now), cached, cached_at>>
      ELSE detect(now, blocks, order)

\* What the live monitor never touches.
batch_vars ==
    <<options, cost_mode, pricing_cache, global_processed_hashes, hash_timestamps,
      sessions_by_dir, session_keys, total_entries_processed, total_entries_skipped,
      session_count, should_stop_early, pc, session_dir, has_session_data, result,
      files_opened, lines_read, fetch_attempts, tables_used, admitted_sum, last,
      readmitted, cost_probe, corpus_vars, view_vars, date_filter, paths, opened, pass_state, path_results,
      ev_threshold, with_eviction, without_eviction, ev_last>>

\* A log file appears on disk (before the monitor starts or between ticks).
WriteLiveFile ==
    /\ mpc \in {"start", "in_loop"}
    /\ Cardinality(live_files) < MaxLiveFiles
    /\ \E f \in LiveFiles :
         /\ \A g \in live_files : g.session_dir # f.session_dir \/ g.name # f.name
         /\ live_files' = live_files \cup {f}
    /\ UNCHANGED <<batch_vars, last_load, cache_hit, blocks_on_disk, clock, cached_blocks, cache_time,
                   active_block, fresh_block, current_sessions, mpc, cursor_hidden,
                   handlers, ticks>>

\* Lines 869-870: the snapshot files of a directory are globbed twice, with
\* session_blocks_*.json and with *session_blocks*.json, and the two lists
\* are concatenated; a file that both patterns match is read twice.
\* Lines 879-902 then give the blocks of a snapshot file holding one block
\* once for every time the file is listed.
load_block_file(name, block) ==
    LET matches == IF name = "session_blocks_1.json"
                     THEN <<"session_blocks_*.json", "*session_blocks*.json">>
                     ELSE <<"*session_blocks*.json">>
    IN  [i \in DOMAIN matches |-> block]

\* A session-blocks snapshot file, holding one block, appears on disk.
WriteBlock ==
    /\ mpc \in {"start", "in_loop"}
    /\ blocks_on_disk = <<>>
    /\ \E b \in PersistedBlocks,
          name \in {"session_blocks_1.json", "alt_session_blocks.json"} :
         blocks_on_disk' = load_block_file(name, b)
    /\ UNCHANGED <<batch_vars, last_load, cache_hit, live_files, clock, cached_blocks, cache_time,
                   active_block, fresh_block, current_sessions, mpc, cursor_hidden,
                   handlers, ticks>>

\* run_live_monitor, lines 1379-1380: live mode on a terminal hides the
\* cursor.
HideCursor ==
    /\ mpc = "start"
    /\ cursor_hidden' = TRUE
    /\ mpc' = "hidden"
    /\ UNCHANGED <<batch_vars, last_load, cache_hit, live_files, blocks_on_disk, clock, cached_blocks,
                   cache_time, active_block, fresh_block, current_sessions, handlers,
                   ticks>>

\* Line 1390: signal.signal(signal.SIGINT, signal_handler).
InstallSigint ==
    /\ mpc = "hidden"
    /\ handlers' = handlers \cup {"SIGINT"}
    /\ mpc' = "sigint_set"
    /\ UNCHANGED <<batch_vars, last_load, cache_hit, live_files, blocks_on_disk, clock, cached_blocks,
                   cache_time, active_block, fresh_block, current_sessions,
                   cursor_hidden, ticks>>

\* Line 1391: signal.signal(signal.SIGTERM, signal_handler); the loop is
\* entered.
InstallSigterm ==
    /\ mpc = "sigint_set"
    /\ handlers' = handlers \cup {"SIGTERM"}
    /\ mpc' = "in_loop"
    /\ UNCHANGED <<batch_vars, last_load, cache_hit, live_files, blocks_on_disk, clock, cached_blocks,
                   cache_time, active_block, fresh_block, current_sessions,
                   cursor_hidden, ticks>>

\* Lines 1089-1090 and 1104, inside find_active_session_block: the tick, one
\* of at most max_ticks, finds no cache less than 30 seconds old and reads
\* the snapshot files.
LoadBlocks(max_ticks) ==
    /\ mpc = "in_loop"
    /\ ticks < max_ticks
    /\ ~(cached_blocks # None /\ cache_time # None /\ clock - cache_time[1] < 30)
    /\ last_load' = Some(clock)
    /\ cache_hit' = FALSE
    /\ mpc' = "blocks_loaded"
    /\ UNCHANGED <<batch_vars, live_files, blocks_on_disk, clock, cached_blocks,
                   cache_time, active_block, fresh_block, current_sessions,
                   cursor_hidden, handlers, ticks>>

load_session_blocks == LoadBlocks(MaxTicks)

\* Line 1117, inside find_active_session_block: no loaded block is active
\* and the recent log files are read.
ReadSessions ==
    /\ mpc = "blocks_loaded"
    /\ FirstActive(blocks_on_disk, clock) = None
    /\ \E order \in Enumerations(live_files) :
         current_sessions' = get_current_session_data(order, clock)
    /\ mpc' = "sessions_read"
    /\ UNCHANGED <<batch_vars, last_load, cache_hit, live_files, blocks_on_disk, clock,
                   cached_blocks, cache_time, active_block, fresh_block,
                   cursor_hidden, handlers, ticks>>

\* find_active_session_block returns and line 1204 of display_live_data
\* assigns active_block, cached_blocks and cache_time: from the cache (lines
\* 1089-1101) in a tick of at most max_ticks, from the loaded blocks (lines
\* 1107-1114), or from the sessions read (lines 1118-1189).
Tick(max_ticks) ==
    /\ \/ /\ mpc = "in_loop" /\ ticks < max_ticks
          /\ cached_blocks # None /\ cache_time # None /\ clock - cache_time[1] < 30
       \/ mpc = "blocks_loaded" /\ FirstActive(blocks_on_disk, clock) # None
       \/ mpc = "sessions_read"
    /\ \E order \in Enumerations(live_files) :
         /\ mpc = "sessions_read"
              => get_current_session_data(order, clock) = current_sessions
         /\ LET found == find_active_session_block(cached_blocks, cache_time, clock,
                                                   blocks_on_disk, order)
            IN  /\ active_block' = found[1]
                /\ cached_blocks' = found[2]
                /\ cache_time' = found[3]
                /\ fresh_block' = detect(clock, blocks_on_disk, order)[1]
    /\ cache_hit' = (mpc = "in_loop")
    /\ ticks' = ticks + 1
    /\ mpc' = "displaying"
    /\ UNCHANGED <<batch_vars, last_load, live_files, blocks_on_disk, clock,
                   current_sessions, cursor_hidden, handlers>>

display_live_data == Tick(MaxTicks)

\* display_live_data after line 1204: the screen is cleared and written,
\* and the function returns.
Display ==
    /\ mpc = "displaying"
    /\ mpc' = "sleeping"
    /\ UNCHANGED <<batch_vars, last_load, cache_hit, live_files, blocks_on_disk, clock,
                   cached_blocks, cache_time, active_block, fresh_block,
                   current_sessions, cursor_hidden, handlers, ticks>>

\* Line 1397: time.sleep(3).
Sleep ==
    /\ mpc = "sleeping"
    /\ clock' = clock + 3
    /\ mpc' = "in_loop"
    /\ UNCHANGED <<batch_vars, last_load, cache_hit, live_files, blocks_on_disk, cached_blocks, cache_time,
                   active_block, fresh_block, current_sessions, cursor_hidden,
                   handlers, ticks>>

\* A tick raises an exception, before or after line 1204 has assigned the
\* cache: lines 1402-1406 show the cursor and the function returns.
TickRaises ==
    /\ mpc \in {"in_loop", "blocks_loaded", "sessions_read", "displaying"}
    /\ cursor_hidden' = FALSE
    /\ mpc' = "exited"
    /\ UNCHANGED <<batch_vars, last_load, cache_hit, live_files, blocks_on_disk, clock, cached_blocks,
                   cache_time, active_block, fresh_block, current_sessions, handlers,
                   ticks>>

\* A signal arrives after hide_cursor, between two lines or inside a tick:
\* signal_handler (lines 1383-1387) when it is installed for the signal,
\* else the default action: KeyboardInterrupt outside the try block for
\* SIGINT, termination for SIGTERM.
Signal(sig) ==
    /\ mpc \in {"hidden", "sigint_set", "in_loop", "blocks_loaded", "sessions_read",
                "displaying", "sleeping"}
    /\ cursor_hidden' = IF sig \in handlers THEN FALSE ELSE cursor_hidden
    /\ mpc' = "exited"
    /\ UNCHANGED <<batch_vars, last_load, cache_hit, live_files, blocks_on_disk, clock, cached_blocks,
                   cache_time, active_block, fresh_block, current_sessions, handlers,
                   ticks>>
Sigint == Signal("SIGINT")
Sigterm == Signal("SIGTERM")

\* The live monitor on a terminal, the files on disk changing between ticks.
InitLive ==
    /\ Init
    /\ options = <<"daily", None>>
    /\ cost_mode = "auto"
NextLive ==
    \/ WriteLiveFile \/ WriteBlock \/ HideCursor \/ InstallSigint \/ InstallSigterm
    \/ load_session_blocks \/ ReadSessions \/ display_live_data \/ Display
    \/ Sleep \/ TickRaises \/ Sigint \/ Sigterm
SpecLive == InitLive /\ [][NextLive]_vars

\* The monitor left running for MaxCacheTicks ticks.
load_session_blocks_cached == LoadBlocks(MaxCacheTicks)
display_live_data_cached == Tick(MaxCacheTicks)
NextCache ==
    \/ WriteLiveFile \/ WriteBlock \/ HideCursor \/ InstallSigint \/ InstallSigterm
    \/ load_session_blocks_cached \/ ReadSessions \/ display_live_data_cached
    \/ Display \/ Sleep \/ TickRaises \/ Sigint \/ Sigterm
SpecCache == InitLive /\ [][NextCache]_vars

\* ==================================================================== claims
\* A step that processes one line; the line is last'.line.
LineStep == lines_read' = lines_read + 1
FpOf(line) == <<line.message_id, line.requestId>>
HasFp(line) == line.message_id # "none" /\ line.requestId # "none"
UsageStep == LineStep /\ last'.line.kind = "usage"

\* The token totals of a directory's aggregate (zero when there is none).
TokensOf(sessions, dir) ==
    IF dir \in DOMAIN sessions
      THEN <<sessions[dir].input_tokens, sessions[dir].output_tokens,
             sessions[dir].cache_creation_tokens, sessions[dir].cache_read_tokens>>
      ELSE <<0, 0, 0, 0>>
UsageTokens(line) ==
    <<line.usage.input_tokens, line.usage.output_tokens,
      line.usage.cache_creation_input_tokens, line.usage.cache_read_input_tokens>>
Plus4(a, b) == <<a[1] + b[1], a[2] + b[2], a[3] + b[3], a[4] + b[4]>>

\* The step counts the event as skipped and aggregates nothing.
StepRejected ==
    /\ total_entries_skipped' = total_entries_skipped + 1
    /\ sessions_by_dir' = sessions_by_dir
\* The step does not skip the event and adds its tokens to the aggregate of
\* the file's directory, and to no other aggregate.
StepAggregated ==
    /\ total_entries_skipped' = total_entries_skipped
    /\ DOMAIN sessions_by_dir' = DOMAIN sessions_by_dir \cup {session_dir[1]}
    /\ TokensOf(sessions_by_dir', session_dir[1])
         = Plus4(TokensOf(sessions_by_dir, session_dir[1]), UsageTokens(last'.line))
    /\ \A d \in DOMAIN sessions_by_dir :
         d # session_dir[1] => sessions_by_dir'[d] = sessions_by_dir[d]

\* C1: an event whose fingerprint is tracked with a firstSeen, and which has
\* a timestamp itself, is rejected when the two are at most 24 hours apart
\* (in either order, 24 hours included) and admitted and aggregated when they
\* are more than 24 hours apart.
C1_DedupWindow ==
    [][(/\ UsageStep
        /\ HasFp(last'.line)
        /\ FpOf(last'.line) \in global_processed_hashes
        /\ FpOf(last'.line) \in DOMAIN hash_timestamps
        /\ last'.line.timestamp.kind = "iso")
       => LET first_seen == hash_timestamps[FpOf(last'.line)]
              now == last'.line.timestamp.wall
              apart == IF now >= first_seen THEN now - first_seen ELSE first_seen - now
          IN  IF apart <= 24 THEN StepRejected ELSE StepAggregated]_vars

\* C1 witness: after a rejection, an event 25 hours EARLIER than the tracked
\* firstSeen has been admitted.
C1_Witness ==
    /\ last.outcome = "applied"
    /\ last.tracked
    /\ last.first_seen = Some(25)
    /\ last.line.timestamp = [kind |-> "iso", wall |-> 0]
    /\ total_entries_skipped >= 1

\* C2: an event whose fingerprint is tracked is rejected when it has no
\* parsable timestamp or the tracked entry has no firstSeen; and a
\* fingerprint tracked without firstSeen stays so for the rest of the run.
C2_MissingTimestampRejects ==
    [][/\ (/\ UsageStep
           /\ HasFp(last'.line)
           /\ FpOf(last'.line) \in global_processed_hashes
           /\ \/ last'.line.timestamp.kind # "iso"
              \/ FpOf(last'.line) \notin DOMAIN hash_timestamps)
          => StepRejected
       /\ \A h \in global_processed_hashes \ DOMAIN hash_timestamps :
            h \in global_processed_hashes' \ DOMAIN hash_timestamps']_vars

\* C2 witness: a fingerprint admitted without timestamp has been rejected
\* twice since, the last time with a timestamp of hour 49.
C2_Witness ==
    /\ last.outcome = "skipped"
    /\ last.tracked
    /\ last.first_seen = None
    /\ last.line.timestamp = [kind |-> "iso", wall |-> 49]
    /\ total_entries_skipped >= 2

\* An aged-out admission resets firstSeen to the event's timestamp, and a
\* rejection leaves every firstSeen as it was.
C4_ResetAndFrame ==
    /\ (/\ UsageStep
        /\ HasFp(last'.line)
        /\ FpOf(last'.line) \in DOMAIN hash_timestamps
        /\ last'.line.timestamp.kind = "iso"
        /\ total_entries_skipped' = total_entries_skipped)
       => /\ FpOf(last'.line) \in DOMAIN hash_timestamps'
          /\ hash_timestamps'[FpOf(last'.line)] = last'.line.timestamp.wall
    /\ (LineStep /\ total_entries_skipped' # total_entries_skipped)
       => hash_timestamps' = hash_timestamps

\* The event is within 24 hours of the aged-out admission of its fingerprint.
NearReadmission(line) ==
    /\ line.kind = "usage"
    /\ HasFp(line)
    /\ readmitted[FpOf(line)] # None
    /\ line.timestamp.kind = "iso"
    /\ line.timestamp.wall - readmitted[FpOf(line)][1] \in -24..24

\* C4 as claimed: after an aged-out admission resets firstSeen, the next
\* events with that fingerprint within 24 hours of it are rejected.
C4_Original ==
    [][/\ C4_ResetAndFrame
       /\ (LineStep /\ NearReadmission(last'.line)) => StepRejected]_vars

\* C4 amended: the same, for as long as the fingerprint has not been evicted.
C4_Amended ==
    [][/\ C4_ResetAndFrame
       /\ (/\ LineStep
           /\ NearReadmission(last'.line)
           /\ FpOf(last'.line) \in global_processed_hashes)
          => StepRejected]_vars

\* C4 witness: firstSeen was reset to hour 25 (from hour 0), and an event of
\* hour 49, 24 hours from the reset value and 49 from the first occurrence,
\* has been rejected.
C4_Witness ==
    /\ last.outcome = "skipped"
    /\ last.line.timestamp = [kind |-> "iso", wall |-> 49]
    /\ last.first_seen = Some(25)
    /\ readmitted[FpOf(last.line)] = Some(25)

\* C3 as claimed: a usage event without message id or without request id is
\* admitted and aggregated whatever the store holds, and adds nothing to the
\* store.
C3_NoFingerprintAdmitted ==
    [][(UsageStep /\ ~HasFp(last'.line))
       => /\ StepAggregated
          /\ global_processed_hashes' \subseteq global_processed_hashes
          /\ DOMAIN hash_timestamps' \subseteq DOMAIN hash_timestamps]_vars

\* The cost and token totals of a directory's aggregate.
TotalsOf(sessions, dir) ==
    IF dir \in DOMAIN sessions
      THEN [total_cost |-> sessions[dir].total_cost,
            input_tokens |-> sessions[dir].input_tokens,
            output_tokens |-> sessions[dir].output_tokens,
            cache_creation_tokens |-> sessions[dir].cache_creation_tokens,
            cache_read_tokens |-> sessions[dir].cache_read_tokens]
      ELSE ZeroTotals

\* C5 as claimed: at the end of a run the totals of every session are the
\* sums over the events the dedup check admitted for it.
C5_AdmittedAppliedOnce ==
    pc = "done" => \A d \in SessionDirs : TotalsOf(sessions_by_dir, d) = admitted_sum[d]

\* C6 as claimed: a usage event with an unparsable timestamp is rejected or
\* aggregated like any event without timestamp, and the pass goes on reading
\* the same file.
C6_UnparsableTimestampProcessed ==
    [][(UsageStep /\ last'.line.timestamp.kind = "unparsable")
       => /\ pc' = "in_file"
          /\ StepRejected \/ StepAggregated]_vars

\* C7: a line that is not valid JSON changes no aggregate, counter or dedup
\* entry, and the pass goes on reading the same file.
C7_InvalidJsonSkipped ==
    [][(LineStep /\ last'.line.kind = "invalid_json")
       => /\ pc' = "in_file"
          /\ UNCHANGED <<sessions_by_dir, session_keys, global_processed_hashes,
                         hash_timestamps, total_entries_processed,
                         total_entries_skipped, has_session_data, session_count,
                         pricing_cache, session_dir, files_opened>>]_vars

\* C7 witness: an invalid line has been read after a counted entry and the
\* file is still being read.
C7_Witness ==
    /\ last.line.kind = "invalid_json"
    /\ pc = "in_file"
    /\ total_entries_processed >= 1
    /\ sessions_by_dir # <<>>

\* C8 as claimed: valid JSON that is no object with a message object holding
\* a usage object changes no aggregate and no dedup entry, and the pass goes
\* on reading the same file.
C8_NonUsageIgnored ==
    [][(LineStep /\ last'.line.kind \in {"scalar", "no_message", "message_null",
                                         "message_text", "message_usage_text"})
       => /\ pc' = "in_file"
          /\ UNCHANGED <<sessions_by_dir, global_processed_hashes,
                         hash_timestamps>>]_vars

\* The four categories: the token field and the rate field of each.
Categories ==
    {<<"input_tokens", "input_cost_per_token">>,
     <<"output_tokens", "output_cost_per_token">>,
     <<"cache_creation_input_tokens", "cache_creation_input_token_cost">>,
     <<"cache_read_input_tokens", "cache_read_input_token_cost">>}
RECURSIVE SumOver(_, _, _)
SumOver(cats, tokens, rates) ==
    IF cats = {} THEN 0
    ELSE LET c == CHOOSE x \in cats : TRUE
         IN (IF rates[c[2]] = None THEN 0 ELSE tokens[c[1]] * rates[c[2]][1])
            + SumOver(cats \ {c}, tokens, rates)
\* The reference of C9; table is None when no table was read.
ReferenceCost(mode, data, table) ==
    LET declared == data.costUSD.kind = "num"
        priced == table # None /\ data.model \in DOMAIN table[1]
        computed == IF priced THEN SumOver(Categories, data.usage, table[1][data.model])
                    ELSE 0
    IN  CASE mode = "display" -> IF declared THEN data.costUSD.val ELSE 0
          [] mode = "calculate" -> computed
          [] OTHER -> IF declared THEN data.costUSD.val ELSE computed

\* C9: calculate_entry_cost equals the reference for every entry, table and
\* mode; a declared 5 with tokens computing to 7 gives 5 (display), 7
\* (calculate), 5 (auto).
C9_CostModes ==
    cost_probe.called =>
      /\ cost_probe.cost = ReferenceCost(cost_mode, cost_probe.data, cost_probe.table)
      /\ (cost_mode = "calculate" /\ cost_probe.data.model # "absent"
          /\ cost_probe.data.model # "null" /\ cost_probe.data.model # "")
         => cost_probe.table # None
      /\ (/\ cost_probe.data.costUSD = Declared5
          /\ cost_probe.data.usage = Tok(1, 0, 1, 0)
          /\ cost_probe.data.model = "claude-sonnet-4-20250514"
          /\ pricing_cache = Some(claude_pricing))
         => cost_probe.cost = (IF cost_mode = "calculate" THEN 7 ELSE 5)

\* C9 witness: an entry declaring 0 whose tokens compute to 7 has been
\* priced in auto mode (at 0).
C9_Witness ==
    /\ cost_probe.called
    /\ cost_mode = "auto"
    /\ cost_probe.data.costUSD = [kind |-> "num", val |-> 0]
    /\ cost_probe.data.usage = Tok(1, 0, 1, 0)
    /\ cost_probe.data.model = "claude-sonnet-4-20250514"
    /\ pricing_cache = Some(claude_pricing)
    /\ cost_probe.cost = 0

\* C10 as claimed: the price table is fetched at most once in a run and
\* every cost computation uses the same table.
C10_FetchedAtMostOnce ==
    /\ fetch_attempts <= 1
    /\ Cardinality(tables_used) <= 1

\* The fields of a directory's aggregate that the claims speak of.
FieldsOf(sessions, dir) == [SessionOf(sessions, dir) EXCEPT !.session_dir = None]

\* C11 as claimed: a usage event with four zero token counts and no declared
\* cost changes no field of any session aggregate, and the pass goes on
\* reading the file.
C11_EmptyEventExcluded ==
    [][(UsageStep /\ last'.line.usage = ZeroUsage /\ last'.line.costUSD = NoCost)
       => /\ \A d \in SessionDirs :
               FieldsOf(sessions_by_dir', d) = FieldsOf(sessions_by_dir, d)
          /\ pc' = "in_file"]_vars

\* The totals the per-session output reports for a session id.
RECURSIVE TotalsById(_, _)
TotalsById(res, id) ==
    IF res = <<>> THEN <<0, 0, 0, 0, 0>>
    ELSE LET r == Head(res)
             rest == TotalsById(Tail(res), id)
         IN  IF r.sessionId = id
               THEN <<rest[1] + r.inputTokens, rest[2] + r.outputTokens,
                      rest[3] + r.cacheCreationTokens, rest[4] + r.cacheReadTokens,
                      rest[5] + r.totalCost>>
               ELSE rest

\* C12 as claimed: two runs over the same files report the same token and
\* cost totals for every session, whatever order discovery enumerates in.
C12_RerunSameTotals ==
    runs >= 2 =>
      \A d \in CorpusDirs : TotalsById(run_result, d[2]) = TotalsById(prev_result, d[2])

\* The per-day totals of month m derived from the full session list: cost
\* and number of sessions.
FullMonth(data, m) ==
    LET mine == SelectSeq(data, LAMBDA x : MonthOf(DateOf(x)) = m)
    IN  <<SumCost(mine), Len(mine)>>

\* C13 as claimed: every month of the monthly view totals the per-day
\* entries of that month derived from all session aggregates.
C13_MonthlyIsSumOfDaily ==
    view_shown =>
      \A i \in DOMAIN monthly_data :
        <<monthly_data[i].totalCost, monthly_data[i].totalSessions>>
          = FullMonth(view_data, monthly_data[i].month)

\* C14 as claimed: the per-session output holds at most one aggregate per
\* session id (the directory name), whatever replica roots the files of
\* that directory name lie under.
C14_OneAggregatePerSessionId ==
    pc = "done" =>
      \A i, j \in DOMAIN result :
        result[i].sessionId = result[j].sessionId => i = j

\* The tick just made was a detection without cache that found no active
\* snapshot, so that current_sessions is what it read.
FreshSynthesis ==
    /\ mpc = "sleeping"
    /\ cache_time = Some(clock)
    /\ FirstActive(blocks_on_disk, clock) = None

\* The events of a file inside the trailing window.
InWindow(f) == SelectSeq(f.events, LAMBDA e : e.timestamp >= clock - 120)

\* C15 as claimed: a session with two or more usage events in the window has
\* tokens-per-minute = window tokens / span, span being the minutes between
\* the earliest and the latest event (at least 1), and cost-per-hour = window
\* cost / span * 60.
C15_BurnRate ==
    FreshSynthesis =>
      \A f \in live_files :
        LET name == f.session_dir[2]
            kept == InWindow(f)
            times == {kept[i].timestamp : i \in DOMAIN kept}
            span_seconds == IF Max(times) - Min(times) < 60 THEN 60
                            ELSE Max(times) - Min(times)
        IN  (/\ name \in DOMAIN current_sessions
             /\ current_sessions[name].file_modified = f.mtime
             /\ current_sessions[name].total_tokens = SumField(kept, "tokens")
             /\ Len(kept) >= 2
             /\ Cardinality({g \in live_files : g.session_dir[2] = name}) = 1)
            => /\ FracEq(current_sessions[name].realBurnRateTokens,
                         Frac(SumField(kept, "tokens") * 60, span_seconds))
               /\ FracEq(current_sessions[name].realBurnRateCost,
                         Frac(SumField(kept, "costUSD") * 60 * 60, span_seconds))

\* The files that contribute to a synthesized window at the clock: modified
\* within 10 minutes and holding usage within 2 minutes.
Contributing ==
    {f \in live_files :
       /\ f.mtime > clock - 600
       /\ SumField(InWindow(f), "tokens") > 0 \/ SumField(InWindow(f), "costUSD") > 0}
RECURSIVE SumWindowCost(_)
SumWindowCost(files) ==
    IF files = {} THEN 0
    ELSE LET f == CHOOSE x \in files : TRUE
         IN  SumField(InWindow(f), "costUSD") + SumWindowCost(files \ {f})
RECURSIVE SumFileRates(_, _)
SumFileRates(files, field) ==
    IF files = {} THEN Frac(0, 1)
    ELSE LET f == CHOOSE x \in files : TRUE
         IN  FracAdd(FileSession(f, clock)[field], SumFileRates(files \ {f}, field))

\* C16 as claimed: a synthesized window sums cost and burn rates over every
\* contributing file, and counts the contributing sessions.
C16_AllRecentFilesContribute ==
    (FreshSynthesis /\ active_block # None)
      => /\ active_block[1].costUSD = SumWindowCost(Contributing)
         /\ FracEq(active_block[1].realBurnRateTokens,
                   SumFileRates(Contributing, "realBurnRateTokens"))
         /\ FracEq(active_block[1].realBurnRateCost,
                   SumFileRates(Contributing, "realBurnRateCost"))
         /\ active_block[1].activeSessionCount
              = Cardinality({f.session_dir[2] : f \in Contributing})

\* C17 as claimed: what a tick reports is what a detection from the
\* snapshots and log files of that moment returns; idle only when that
\* detection finds nothing.
C17_RecomputedEachTick ==
    mpc = "sleeping" => active_block = fresh_block

\* C18 as claimed: once the cursor has been hidden, the process does not
\* exit with the cursor hidden.
C18_CursorRestored ==
    mpc = "exited" => ~cursor_hidden

\* C19: a step removes entries from the dedup store only when the event is
\* admitted with a timestamp T and the timestamp map, the event included,
\* holds more entries than the cleanup threshold; it then removes exactly
\* the entries first seen before T - 48 h, from the seen-set and from the
\* map, and keeps every other entry with its value.
C19_EvictionRule ==
    [][LineStep =>
        LET line == last'.line
            admitted == last'.outcome \in {"applied", "admitted_raise"}
            stamped == line.timestamp.kind = "iso"
            T == line.timestamp.wall
            seen == IF admitted /\ HasFp(line)
                      THEN global_processed_hashes \cup {FpOf(line)}
                      ELSE global_processed_hashes
            tracked == IF admitted /\ HasFp(line) /\ stamped
                         THEN DOMAIN hash_timestamps \cup {FpOf(line)}
                         ELSE DOMAIN hash_timestamps
            first(h) == IF admitted /\ HasFp(line) /\ stamped /\ h = FpOf(line)
                          THEN T ELSE hash_timestamps[h]
            evicts == admitted /\ stamped /\ Cardinality(tracked) > dedup_cleanup_threshold
            gone == IF evicts THEN {h \in tracked : first(h) < T - 48} ELSE {}
        IN  /\ global_processed_hashes' = seen \ gone
            /\ DOMAIN hash_timestamps' = tracked \ gone
            /\ \A h \in tracked \ gone : hash_timestamps'[h] = first(h)]_vars

\* C19 witness: m1 was admitted and is no longer tracked, the event read
\* last being m2 at hour 49, which is tracked.
C19_Witness ==
    /\ last.outcome = "applied"
    /\ last.line.message_id = "m2"
    /\ last.line.timestamp = Iso(49)
    /\ global_processed_hashes = {<<"m2", "r1">>}
    /\ \E d \in SessionDirs : admitted_sum[d].input_tokens >= 1

\* Position of a file in a list of distinct files.
PosIn(files, f) == CHOOSE i \in DOMAIN files : files[i] = f
\* The earliest parsable timestamp among the lines of a readable file, as a
\* set: empty when there is none.
ContentTime(f) ==
    LET walls == {f.lines[i].timestamp.wall :
                    i \in {j \in DOMAIN f.lines : f.lines[j].timestamp.kind = "iso"}}
    IN  IF f.mtime = None \/ walls = {} THEN {}
        ELSE {w \in walls : \A v \in walls : w <= v}

\* C20: the sorted list is a permutation of the enumerated one, in
\* non-decreasing modification time with unreadable files last; files that
\* tie are ordered by content timestamp when fewer than the small-dataset
\* number of files are sorted, and keep their input order otherwise or when
\* the content timestamps tie or are missing.
C20_SortOrder ==
    runs >= 1 =>
      /\ Len(sorted_files) = Len(all_jsonl_files)
      /\ {sorted_files[i] : i \in DOMAIN sorted_files}
           = {all_jsonl_files[i] : i \in DOMAIN all_jsonl_files}
      /\ \A i, j \in DOMAIN sorted_files :
           i < j =>
             LET a == sorted_files[i]
                 b == sorted_files[j]
                 in_input_order == PosIn(all_jsonl_files, a) < PosIn(all_jsonl_files, b)
             IN  /\ b.mtime = None \/ (a.mtime # None /\ a.mtime[1] <= b.mtime[1])
                 /\ a.mtime = b.mtime =>
                      IF Len(all_jsonl_files) < small_dataset
                        THEN /\ (ContentTime(a) # {} /\ ContentTime(b) # {})
                                  => \A x \in ContentTime(a), y \in ContentTime(b) :
                                       x <= y /\ (x = y => in_input_order)
                             /\ (ContentTime(a) = {} /\ ContentTime(b) = {})
                                  => in_input_order
                        ELSE in_input_order

\* C20 witness: two files with the same modification time were enumerated
\* against their content timestamps and come out ordered by them.
C20_Witness ==
    /\ runs >= 1
    /\ Len(all_jsonl_files) = 2
    /\ all_jsonl_files[1].mtime = Some(1)
    /\ all_jsonl_files[2].mtime = Some(1)
    /\ all_jsonl_files[1].lines = <<Ev("m1", Iso(25))>>
    /\ all_jsonl_files[2].lines = <<Ev("m1", Iso(0))>>
    /\ sorted_files = <<all_jsonl_files[2], all_jsonl_files[1]>>

\* The option is a string that is not a date.
InvalidDate(option) == option.kind = "invalid"

\* C21: when since or until is not a valid YYYY-MM-DD date, the run
\* discovers no replica root, opens no log file, builds no dedup or
\* aggregate state and returns the empty list.
C21_InvalidDateAborts ==
    (runs >= 1 /\ (InvalidDate(date_filter[1]) \/ InvalidDate(date_filter[2])))
      => /\ paths = None
         /\ opened = {}
         /\ pass_state = None
         /\ all_jsonl_files = <<>>
         /\ run_result = <<>>

\* C21 witness: a run with a valid since and an invalid until has returned
\* nothing although a file of the since day is on disk.
C21_Witness ==
    /\ runs >= 1
    /\ date_filter = <<[kind |-> "date", day |-> 1], [kind |-> "invalid", day |-> 0]>>
    /\ \E f \in corpus : f.mtime = Some(25) /\ f.lines = <<Ev("m1", Iso(25))>>
    /\ run_result = <<>>
    /\ paths = None

\* C22 as claimed: when an error ends the processing of a file, no event of
\* that file has been aggregated and the failing line adds no fingerprint,
\* the aggregates are those built from the earlier files, and the loop goes
\* on to the next file.
C22_FailedFileSkipped ==
    [][(LineStep /\ pc' = "between")
       => /\ ~has_session_data'
          /\ sessions_by_dir' = sessions_by_dir
          /\ global_processed_hashes' = global_processed_hashes
          /\ hash_timestamps' = hash_timestamps]_vars

\* The input tokens and the cost of a list of session records.
RECURSIVE SumInput(_)
SumInput(records) ==
    IF records = <<>> THEN 0 ELSE Head(records).inputTokens + SumInput(Tail(records))
\* The responses logged in the readable files of a replica root, each once.
ResponsesUnder(root) ==
    UNION {{FpOf(f.lines[i]) : i \in DOMAIN f.lines} :
             f \in {g \in corpus : g.session_dir[1] = root /\ g.mtime # None}}
\* The input tokens and the declared cost of the response with a fingerprint.
ResponseInput(fp) == (CHOOSE e \in Fingerprinted : FpOf(e) = fp).usage.input_tokens
ResponseCost(fp) == (CHOOSE e \in Fingerprinted : FpOf(e) = fp).costUSD.val
RECURSIVE SumResponseInput(_)
SumResponseInput(fps) ==
    IF fps = {} THEN 0
    ELSE LET fp == CHOOSE x \in fps : TRUE
         IN  ResponseInput(fp) + SumResponseInput(fps \ {fp})
RECURSIVE SumResponseCost(_)
SumResponseCost(fps) ==
    IF fps = {} THEN 0
    ELSE LET fp == CHOOSE x \in fps : TRUE
         IN  ResponseCost(fp) + SumResponseCost(fps \ {fp})

\* C23 as claimed: in the parallel variant the worker of a replica root
\* counts every fingerprint logged under that root once (and a fingerprint
\* logged under two roots once per root).
C23_PerPathDedup ==
    (runs >= 1 /\ path_results # <<>>) =>
      \A root \in DOMAIN path_results :
        /\ SumInput(path_results[root]) = SumResponseInput(ResponsesUnder(root))
        /\ SumCost(path_results[root]) = SumResponseCost(ResponsesUnder(root))

\* C24: as long as every event read has a timestamp and no event is older
\* than the one before it, the pass with the cleanup and the pass without it
\* take the same admit/reject decision on every event, whatever the cleanup
\* threshold.
C24_EvictionTransparent ==
    ev_last.in_order => ev_last.skipped = ev_last.skipped_without

\* C24 witness: events in order, and the one read last carries a
\* fingerprint the cleanup had removed; both passes admitted it.
C24_Witness ==
    /\ ev_last.in_order
    /\ ev_last.evicted
    /\ ev_last.forgotten
    /\ ~ev_last.skipped
    /\ ~ev_last.skipped_without
    /\ ev_threshold = 2

\* The event of the step is a duplicate: its fingerprint is tracked and it is
\* not more than 24 hours from the firstSeen (or one of the two is missing).
DuplicateStep ==
    /\ UsageStep
    /\ last'.tracked
    /\ \/ last'.first_seen = None
       \/ last'.line.timestamp.kind # "iso"
       \/ last'.line.timestamp.wall - last'.first_seen[1] \in -24..24

\* C25: the step that reads a duplicate adds one to the processed and to the
\* skipped counter and leaves the tracked fingerprints, their firstSeen
\* values, every session aggregate, the set and order of the aggregates, the
\* file's has-data flag and the pricing table as they were; in particular no
\* fingerprint is evicted.
C25_RejectionFrame ==
    [][DuplicateStep
       => /\ total_entries_processed' = total_entries_processed + 1
          /\ total_entries_skipped' = total_entries_skipped + 1
          /\ global_processed_hashes' = global_processed_hashes
          /\ hash_timestamps' = hash_timestamps
          /\ sessions_by_dir' = sessions_by_dir
          /\ session_keys' = session_keys
          /\ has_session_data' = has_session_data
          /\ session_count' = session_count
          /\ pricing_cache' = pricing_cache
          /\ fetch_attempts' = fetch_attempts
          /\ result' = result]_vars

\* C25 witness: a duplicate was rejected while the store held more entries
\* than the cleanup threshold, one of them more than 48 hours older than the
\* rejected event; that entry is still tracked.
C25_Witness ==
    /\ last.outcome = "skipped"
    /\ last.line.timestamp.kind = "iso"
    /\ Cardinality(DOMAIN hash_timestamps) > dedup_cleanup_threshold
    /\ \E h \in DOMAIN hash_timestamps :
         /\ hash_timestamps[h] < last.line.timestamp.wall - dedup_window_hours * 2
         /\ h \in global_processed_hashes

\* The aggregate has a cost or one of its four token totals.
NonZeroSession(session_data) ==
    \/ session_data.total_cost # 0
    \/ session_data.input_tokens # 0
    \/ session_data.output_tokens # 0
    \/ session_data.cache_creation_tokens # 0
    \/ session_data.cache_read_tokens # 0

\* C26: the returned list holds one record for every session aggregate with
\* a non-zero cost or a non-zero token total (input, output, cache creation
\* or cache read), and none for the others.
C26_NonEmptySessionsReported ==
    pc = "done"
      => Len(result) = Cardinality({d \in DOMAIN sessions_by_dir :
                                      NonZeroSession(sessions_by_dir[d])})

\* C27: between the ticks and once a tick has assigned its result, the
\* cache time the monitor holds is the time of the last read of the disk (a
\* hit hands it back unchanged); a tick answered from the cache comes less
\* than 30 seconds after that read; and while the loop runs the last read is
\* never more than 30 seconds back, so that every window of 30 seconds plus
\* one 3-second tick holds a read.
C27_CacheFreshness ==
    /\ mpc \in {"in_loop", "displaying", "sleeping"} => cache_time = last_load
    /\ (mpc \in {"displaying", "sleeping"} /\ cache_hit) => clock - last_load[1] < 30
    /\ (mpc \in {"in_loop", "blocks_loaded", "sessions_read", "displaying",
                 "sleeping"} /\ last_load # None)
         => clock - last_load[1] <= 30

\* C27 witness: the disk was read on the first tick, the ticks up to 27
\* seconds later were answered from the cache, the tick at 30 seconds read
\* the disk again, and the tick after it was answered from the cache.
C27_Witness ==
    /\ mpc = "sleeping"
    /\ cache_hit
    /\ ticks = 12
    /\ last_load = Some(StartClock + 30)
    /\ clock = StartClock + 33

\* The days of the file's events with a parsable timestamp.
EventDays(jsonl_file) ==
    {jsonl_file.lines[i].timestamp.wall \div 24 :
       i \in {j \in DOMAIN jsonl_file.lines :
                jsonl_file.lines[j].timestamp.kind = "iso"}}
\* The range [earliest, latest] of the file's event days meets [since, until].
OverlapsRange(jsonl_file, since_date, until_date) ==
    /\ EventDays(jsonl_file) # {}
    /\ since_date # None => \E d \in EventDays(jsonl_file) : d >= since_date[1]
    /\ until_date # None => \E d \in EventDays(jsonl_file) : d <= until_date[1]
\* The file was modified no earlier than the hour of its latest event.
ModifiedAfterEvents(jsonl_file) ==
    /\ jsonl_file.mtime # None
    /\ \A i \in DOMAIN jsonl_file.lines :
         jsonl_file.lines[i].timestamp.kind = "iso"
           => jsonl_file.lines[i].timestamp.wall <= jsonl_file.mtime[1]

\* C28: after a run with a since or until date, a file modified no earlier
\* than its latest event is among the files handed to the pass exactly when
\* the range of its event dates overlaps the requested range.
C28_OverlapIncluded ==
    LET since == ParseDate(date_filter[1])
        until == ParseDate(date_filter[2])
    IN  (runs > 0 /\ paths # None /\ (since.date # None \/ until.date # None))
          => \A f \in corpus :
               ModifiedAfterEvents(f)
                 => ((\E i \in DOMAIN all_jsonl_files : all_jsonl_files[i] = f)
                       <=> OverlapsRange(f, since.date, until.date))

\* Every event of every file of the corpus has a parsable timestamp.
AllStamped ==
    \A f \in corpus : \A i \in DOMAIN f.lines : f.lines[i].timestamp.kind = "iso"
\* The months display_monthly (lines 697-700) shows for the result of the run.
MonthsShown ==
    LET monthly == process_monthly_data(process_daily_with_projects(run_result, None),
                                        None)
    IN  {monthly[i].month : i \in DOMAIN monthly}

\* C29: after a run of the monthly command over files whose events all have
\* a parsable timestamp (all of January 2024), every reported session is
\* rolled up under that month, and no month 'unknown' is shown.
C29_MonthlyRollup ==
    (runs > 0 /\ AllStamped)
      => /\ \A i \in DOMAIN run_result : MonthOf(DateOf(run_result[i])) = 0
         /\ unknown_date \notin MonthsShown

\* The events of the file inside the window fall in one minute.
SingleMinute(f) ==
    /\ InWindow(f) # <<>>
    /\ Cardinality({minute_key(InWindow(f)[i].timestamp) : i \in DOMAIN InWindow(f)}) = 1
\* What a contributing session is to add to the window's rates: its window
\* tokens and 60 times its window cost when its events fall in one minute,
\* else the rate get_current_session_data gave it.
RECURSIVE SumExpectedRates(_, _)
SumExpectedRates(files, field) ==
    IF files = {} THEN Frac(0, 1)
    ELSE LET f == CHOOSE x \in files : TRUE
             rate == IF ~SingleMinute(f) THEN FileSession(f, clock)[field]
                     ELSE IF field = "realBurnRateTokens"
                            THEN Frac(SumField(InWindow(f), "tokens"), 1)
                            ELSE Frac(SumField(InWindow(f), "costUSD") * 60, 1)
         IN  FracAdd(rate, SumExpectedRates(files \ {f}, field))

\* C30 as claimed: when the window is synthesized, every session (log file)
\* whose events in the window fall in one minute (one event, or several)
\* contributes a tokens-per-minute rate equal to its window tokens and a
\* cost-per-hour rate equal to 60 times its window cost, and the rates of
\* the synthesized window are the sums of the rates of all contributing
\* sessions.
C30_SingleMinuteRates ==
    (FreshSynthesis /\ active_block # None)
      => /\ \A f \in Contributing :
              SingleMinute(f)
                => /\ FracEq(current_sessions[f.session_dir[2]].realBurnRateTokens,
                             Frac(current_sessions[f.session_dir[2]].total_tokens, 1))
                   /\ current_sessions[f.session_dir[2]].total_tokens
                        = SumField(InWindow(f), "tokens")
                   /\ FracEq(current_sessions[f.session_dir[2]].realBurnRateCost,
                             Frac(SumField(InWindow(f), "costUSD") * 60, 1))
         /\ FracEq(active_block[1].realBurnRateTokens,
                   SumExpectedRates(Contributing, "realBurnRateTokens"))
         /\ FracEq(active_block[1].realBurnRateCost,
                   SumExpectedRates(Contributing, "realBurnRateCost"))

=============================================================================
